---- MODULE Spec2Model ----
(***************************************************************************)
(* A model of the XMTP agent of buzzmap-ai/xmpt-infofi: the classifier and *)
(* extractor adapters, the lookup client, the response formatters, the     *)
(* listener loop of the web service and its in-memory message store.       *)
(*                                                                         *)
(* Strings are sequences of one-character strings, so that trim,           *)
(* toLowerCase, split, replace, substring and JSON parsing are computed on *)
(* characters.  The non-ASCII glyphs of the reply templates are written    *)
(* as one character each, named by code point ("U+1F464").                 *)
(***************************************************************************)
EXTENDS Integers, Sequences, FiniteSets, TLC

VARIABLES
    fn,         \* pure-function harness: the function applied ("none" before)
    fnArg,      \* its argument (message text or payload)
    fnSvc,      \* the behaviour of the completion service during the call
    fnOut       \* its completion: <<"return", v>> or <<"throw">>

VARIABLES
    call,       \* lookup harness: the state of one makeApiCall
    net,        \* the endpoint's side of it: the body chosen, how much was sent
    lkLog       \* the events that settle a call, in the order they happened

\* The service object and its surroundings.
VARIABLES
    client,      \* this.client: "null" or "client"
    isRunning,   \* this.isRunning
    starting,    \* a call of start() is between Client.create and sync
    listener,    \* the run of startMessageListener: its position and locals
    store,       \* messageStore.conversations, in insertion order
    taken,       \* history: the messages the loop has taken, and their fate
    atTake,      \* history: calls and store when the last message was taken
    calls,       \* history: calls of classifier, extractor, lookup and send
    sent         \* history: the texts conversation.send has delivered

\* The service with every run of its listener loop, and the clock.
VARIABLES
    feed,        \* the inbound messages that have arrived, in order
    starts,      \* the calls of start() in flight: the await each is at
    runs,        \* the runs of startMessageListener, in order of creation
    takes,       \* history: run and message of every message taken in hand
    stopMark,    \* history: stop() was called and start() not since
    now          \* Date.now()

fnVars == <<fn, fnArg, fnSvc, fnOut>>
lkVars == <<call, net, lkLog>>
svVars == <<client, isRunning, starting, listener, store, taken, atTake,
            calls, sent>>
lcVars == <<feed, starts, runs, takes, stopMark, now>>
vars == <<fn, fnArg, fnSvc, fnOut, call, net, lkLog, client, isRunning,
          starting, listener, store, taken, atTake, calls, sent, feed,
          starts, runs, takes, stopMark, now>>

-----------------------------------------------------------------------------
(* Characters and strings                                                  *)

UpperChars == <<"A","B","C","D","E","F","G","H","I","J","K","L","M",
                "N","O","P","Q","R","S","T","U","V","W","X","Y","Z">>
LowerChars == <<"a","b","c","d","e","f","g","h","i","j","k","l","m",
                "n","o","p","q","r","s","t","u","v","w","x","y","z">>
DigitChars == <<"0","1","2","3","4","5","6","7","8","9">>

Range(s) == { s[i] : i \in DOMAIN s }

\* White space as String.prototype.trim sees it (the ASCII part).
WhiteSpace == {" ", "\t", "\n", "\r", "\f"}

\* c.toLowerCase() for one character.
LowerOf(c) ==
    IF \E i \in DOMAIN UpperChars : UpperChars[i] = c
    THEN LowerChars[CHOOSE i \in DOMAIN UpperChars : UpperChars[i] = c]
    ELSE c

\* String.prototype.toLowerCase
toLowerCase(s) == [i \in DOMAIN s |-> LowerOf(s[i])]

RECURSIVE trimStart(_)
trimStart(s) ==
    IF s # <<>> /\ Head(s) \in WhiteSpace THEN trimStart(Tail(s)) ELSE s

RECURSIVE trimEnd(_)
trimEnd(s) ==
    IF s # <<>> /\ s[Len(s)] \in WhiteSpace
    THEN trimEnd(SubSeq(s, 1, Len(s) - 1))
    ELSE s

\* String.prototype.trim
trim(s) == trimEnd(trimStart(s))

\* s.startsWith(c) for a one-character c
startsWith(s, c) == s # <<>> /\ Head(s) = c

\* s.substring(from) and s.substring(from, to), 0-based as in JavaScript
substringFrom(s, from) == SubSeq(s, from + 1, Len(s))
substring(s, from, to) ==
    LET t == IF to > Len(s) THEN Len(s) ELSE to IN SubSeq(s, from + 1, t)

\* s.replace(c, ''): a string pattern replaces the first occurrence only.
replaceFirst(s, c) ==
    IF \E i \in DOMAIN s : s[i] = c
    THEN LET k == CHOOSE i \in DOMAIN s :
                      s[i] = c /\ \A j \in 1..(i - 1) : s[j] # c
         IN  SubSeq(s, 1, k - 1) \o SubSeq(s, k + 1, Len(s))
    ELSE s

\* s.split(c): the pieces between the occurrences of c (empty pieces kept).
RECURSIVE splitAcc(_, _, _, _)
splitAcc(s, c, cur, acc) ==
    IF s = <<>> THEN Append(acc, cur)
    ELSE IF Head(s) = c THEN splitAcc(Tail(s), c, <<>>, Append(acc, cur))
    ELSE splitAcc(Tail(s), c, Append(cur, Head(s)), acc)

split(s, c) == splitAcc(s, c, <<>>, <<>>)

\* /^[a-zA-Z0-9_]{3,}$/
HandleMinLen == 3
matchesHandlePattern(w) ==
    /\ Len(w) >= HandleMinLen
    /\ \A i \in DOMAIN w :
          w[i] \in Range(LowerChars) \cup Range(UpperChars)
                   \cup Range(DigitChars) \cup {"_"}

RECURSIVE Concat(_)
Concat(ss) == IF ss = <<>> THEN <<>> ELSE Head(ss) \o Concat(Tail(ss))

-----------------------------------------------------------------------------
(* Completions of a call: a returned value or a thrown exception           *)

Return(v) == <<"return", v>>
Throw == <<"throw">>
Returned(c) == c[1] = "return"
Threw(c) == c[1] = "throw"

\* model.generateContent(prompt) followed by result.response.text():
\* the service answers with a text, or the call throws.
SvcText(t) == <<"text", t>>
SvcThrow == <<"svcthrow">>

-----------------------------------------------------------------------------
(* Classifier adapter                                                      *)

s_endpoint1 == <<"e","n","d","p","o","i","n","t","1">>
s_endpoint2 == <<"e","n","d","p","o","i","n","t","2">>
s_endpoint3 == <<"e","n","d","p","o","i","n","t","3">>
ActionIds == {s_endpoint1, s_endpoint2, s_endpoint3}

\* The try block of decideApiEndpoint.
decideTry(userMessage, svc) ==
    IF svc = SvcThrow THEN Throw
    ELSE LET decision == toLowerCase(trim(svc[2])) IN
         IF decision = s_endpoint1 \/ decision = s_endpoint2
                \/ decision = s_endpoint3
         THEN Return(decision)
         ELSE Return(s_endpoint1)

\* A slip: the answer is compared without trimming and lower-casing, and
\* returned as the service gave it.
decideApiEndpoint_raw(userMessage, svc) ==
    IF svc = SvcThrow THEN Return(s_endpoint1)
    ELSE IF toLowerCase(trim(svc[2])) \in ActionIds THEN Return(svc[2])
    ELSE Return(s_endpoint1)

decideApiEndpoint(userMessage, svc) ==
    LET r == decideTry(userMessage, svc) IN
    IF Threw(r) THEN Return(s_endpoint1) ELSE r

-----------------------------------------------------------------------------
(* Parameter extractor                                                     *)

\* A mutant of scanWords: the last resort is the message as it is.
RECURSIVE scanWords_untrimmed(_, _)
scanWords_untrimmed(words, userMessage) ==
    IF words = <<>> THEN userMessage
    ELSE LET word == Head(words) IN
         IF startsWith(word, "@") THEN substringFrom(word, 1)
         ELSE IF matchesHandlePattern(word) THEN word
         ELSE scanWords_untrimmed(Tail(words), userMessage)

\* The for loop of the catch block: the first word that starts with '@'
\* (without it) or matches the handle pattern, whichever word comes first.
RECURSIVE scanWords(_, _)
scanWords(words, userMessage) ==
    IF words = <<>> THEN trim(userMessage)
    ELSE LET word == Head(words) IN
         IF startsWith(word, "@") THEN substringFrom(word, 1)
         ELSE IF matchesHandlePattern(word) THEN word
         ELSE scanWords(Tail(words), userMessage)

\* The try block of extractAuthorHandle.
extractTry(userMessage, svc) ==
    IF svc = SvcThrow THEN Throw
    ELSE Return(replaceFirst(trim(svc[2]), "@"))

extractAuthorHandle(userMessage, svc) ==
    LET r == extractTry(userMessage, svc) IN
    IF Threw(r) THEN Return(scanWords(split(userMessage, " "), userMessage))
    ELSE r

-----------------------------------------------------------------------------
(* JavaScript values, as JSON.parse builds them                            *)

Undef == <<"undef">>
Null == <<"null">>
Bool(b) == <<"bool", b>>
Num(n) == <<"num", n>>
Str(s) == <<"str", s>>
Arr(items) == <<"arr", items>>
\* An object: its properties <<key, value>> in insertion order.
Obj(props) == <<"obj", props>>

Kind(v) == v[1]
IsNullish(v) == Kind(v) \in {"undef", "null"}
IsArray(v) == Kind(v) = "arr"

\* ToBoolean: the operand test of || and of if (...)
Truthy(v) ==
    CASE Kind(v) = "undef" -> FALSE
      [] Kind(v) = "null" -> FALSE
      [] Kind(v) = "bool" -> v[2]
      [] Kind(v) = "num" -> v[2] # 0
      [] Kind(v) = "str" -> v[2] # <<>>
      [] OTHER -> TRUE

\* a || b
Or(a, b) == IF Truthy(a) THEN a ELSE b

s_length == <<"l","e","n","g","t","h">>

\* v.key for a v that is neither null nor undefined (those throw).
Get(v, key) ==
    CASE Kind(v) = "obj" ->
            IF \E i \in DOMAIN v[2] : v[2][i][1] = key
            THEN v[2][CHOOSE i \in DOMAIN v[2] : v[2][i][1] = key][2]
            ELSE Undef
      [] Kind(v) \in {"arr", "str"} ->
            IF key = s_length THEN Num(Len(v[2])) ELSE Undef
      [] OTHER -> Undef

\* The decimal digits of a natural number.
RECURSIVE NumStr(_)
NumStr(n) ==
    IF n < 10 THEN <<DigitChars[n + 1]>>
    ELSE NumStr(n \div 10) \o <<DigitChars[(n % 10) + 1]>>

s_undefined == <<"u","n","d","e","f","i","n","e","d">>
s_null == <<"n","u","l","l">>
s_true == <<"t","r","u","e">>
s_false == <<"f","a","l","s","e">>
s_objectObject == <<"[","o","b","j","e","c","t"," ","O","b","j","e","c","t","]">>

\* String(v), the conversion of a template literal's ${v}; an array is
\* joined with ",".
RECURSIVE StringOf(_)
RECURSIVE joinValues(_, _)

\* Array.prototype.join(sep): null and undefined elements give "".
joinValues(items, sep) ==
    IF items = <<>> THEN <<>>
    ELSE LET h == IF IsNullish(items[1]) THEN <<>> ELSE StringOf(items[1]) IN
         IF Len(items) = 1 THEN h
         ELSE h \o sep \o joinValues(Tail(items), sep)

StringOf(v) ==
    CASE Kind(v) = "undef" -> s_undefined
      [] Kind(v) = "null" -> s_null
      [] Kind(v) = "bool" -> IF v[2] THEN s_true ELSE s_false
      [] Kind(v) = "num" -> NumStr(v[2])
      [] Kind(v) = "str" -> v[2]
      [] Kind(v) = "arr" -> joinValues(v[2], <<",">>)
      [] OTHER -> s_objectObject

-----------------------------------------------------------------------------
(* JSON.parse, for the JSON texts made of null, true, false, natural       *)
(* numbers, strings with the simple escapes, arrays and objects            *)

JsonSpace == {" ", "\t", "\n", "\r"}

RECURSIVE skipWs(_, _)
skipWs(s, i) == IF i <= Len(s) /\ s[i] \in JsonSpace THEN skipWs(s, i + 1) ELSE i

ParseErr == <<"err">>
ParseOk(v, next) == <<"ok", v, next>>
IsOk(r) == r[1] = "ok"

\* s has the characters of lit from position i on.
hasLiteral(s, i, lit) ==
    /\ i + Len(lit) - 1 <= Len(s)
    /\ SubSeq(s, i, i + Len(lit) - 1) = lit

DigitValue(c) == (CHOOSE k \in DOMAIN DigitChars : DigitChars[k] = c) - 1

RECURSIVE parseDigits(_, _, _)
parseDigits(s, i, acc) ==
    IF i <= Len(s) /\ s[i] \in Range(DigitChars)
    THEN parseDigits(s, i + 1, acc * 10 + DigitValue(s[i]))
    ELSE ParseOk(Num(acc), i)

\* A number: "0", or a digit 1-9 followed by digits.
parseNumber(s, i) ==
    IF s[i] = "0" THEN ParseOk(Num(0), i + 1) ELSE parseDigits(s, i, 0)

EscapeOf(c) ==
    CASE c = "n" -> "\n" [] c = "t" -> "\t" [] c = "r" -> "\r"
      [] c = "f" -> "\f" [] OTHER -> c

\* The characters of a string, from the position after the opening quote.
RECURSIVE parseChars(_, _, _)
parseChars(s, i, acc) ==
    IF i > Len(s) THEN ParseErr
    ELSE IF s[i] = "\"" THEN ParseOk(Str(acc), i + 1)
    ELSE IF s[i] = "\\" THEN
        IF i + 1 <= Len(s) /\ s[i + 1] \in {"\"", "\\", "/", "n", "t", "r", "f"}
        THEN parseChars(s, i + 2, Append(acc, EscapeOf(s[i + 1])))
        ELSE ParseErr
    ELSE IF s[i] \in {"\n", "\t", "\r", "\f"} THEN ParseErr
    ELSE parseChars(s, i + 1, Append(acc, s[i]))

\* obj[key] = value: a repeated key keeps its place and takes the new value.
SetProp(props, key, value) ==
    IF \E k \in DOMAIN props : props[k][1] = key
    THEN [k \in DOMAIN props |->
             IF props[k][1] = key THEN <<key, value>> ELSE props[k]]
    ELSE Append(props, <<key, value>>)

RECURSIVE parseValue(_, _)
RECURSIVE parseElements(_, _, _)
RECURSIVE parseMembers(_, _, _)

\* The elements of an array, from the position of an element on.
parseElements(s, i, acc) ==
    LET r == parseValue(s, i) IN
    IF ~IsOk(r) THEN ParseErr
    ELSE LET j == skipWs(s, r[3]) IN
         IF j > Len(s) THEN ParseErr
         ELSE IF s[j] = "," THEN parseElements(s, j + 1, Append(acc, r[2]))
         ELSE IF s[j] = "]" THEN ParseOk(Arr(Append(acc, r[2])), j + 1)
         ELSE ParseErr

\* The members of an object, from the position of a key (or white space) on.
parseMembers(s, i, acc) ==
    LET k == skipWs(s, i) IN
    IF k > Len(s) \/ s[k] # "\"" THEN ParseErr
    ELSE LET key == parseChars(s, k + 1, <<>>) IN
         IF ~IsOk(key) THEN ParseErr
         ELSE LET c == skipWs(s, key[3]) IN
              IF c > Len(s) \/ s[c] # ":" THEN ParseErr
              ELSE LET r == parseValue(s, c + 1) IN
                   IF ~IsOk(r) THEN ParseErr
                   ELSE LET j == skipWs(s, r[3])
                            props == SetProp(acc, key[2][2], r[2])
                        IN  IF j > Len(s) THEN ParseErr
                            ELSE IF s[j] = "," THEN parseMembers(s, j + 1, props)
                            ELSE IF s[j] = "}" THEN ParseOk(Obj(props), j + 1)
                            ELSE ParseErr

\* One value, white space before it skipped.
parseValue(s, i0) ==
    LET i == skipWs(s, i0) IN
    IF i > Len(s) THEN ParseErr
    ELSE IF hasLiteral(s, i, s_null) THEN ParseOk(Null, i + 4)
    ELSE IF hasLiteral(s, i, s_true) THEN ParseOk(Bool(TRUE), i + 4)
    ELSE IF hasLiteral(s, i, s_false) THEN ParseOk(Bool(FALSE), i + 5)
    ELSE IF s[i] \in Range(DigitChars) THEN parseNumber(s, i)
    ELSE IF s[i] = "\"" THEN parseChars(s, i + 1, <<>>)
    ELSE IF s[i] = "[" THEN
        LET j == skipWs(s, i + 1) IN
        IF j <= Len(s) /\ s[j] = "]" THEN ParseOk(Arr(<<>>), j + 1)
        ELSE parseElements(s, i + 1, <<>>)
    ELSE IF s[i] = "{" THEN
        LET j == skipWs(s, i + 1) IN
        IF j <= Len(s) /\ s[j] = "}" THEN ParseOk(Obj(<<>>), j + 1)
        ELSE parseMembers(s, i + 1, <<>>)
    ELSE ParseErr

\* JSON.parse(text): the value, or a SyntaxError.
JsonParse(text) ==
    LET r == parseValue(text, 1) IN
    IF IsOk(r) /\ skipWs(text, r[3]) > Len(text) THEN Return(r[2]) ELSE Throw

-----------------------------------------------------------------------------
(* JSON.stringify(value, null, 2)                                          *)

IndentWidth == 2

Spaces(n) == [i \in 1..n |-> " "]

QuoteChar(c) ==
    CASE c = "\"" -> <<"\\", "\"">>
      [] c = "\\" -> <<"\\", "\\">>
      [] c = "\n" -> <<"\\", "n">>
      [] c = "\t" -> <<"\\", "t">>
      [] c = "\r" -> <<"\\", "r">>
      [] c = "\f" -> <<"\\", "f">>
      [] OTHER -> <<c>>

\* A string in quotes, its special characters escaped.
Quote(s) == <<"\"">> \o Concat([i \in DOMAIN s |-> QuoteChar(s[i])]) \o <<"\"">>

RECURSIVE stringifyAt(_, _)
RECURSIVE stringifyItems(_, _)
RECURSIVE stringifyProps(_, _, _)

\* The elements of an array, one per line at the given depth.
stringifyItems(items, depth) ==
    IF items = <<>> THEN <<>>
    ELSE Spaces(depth * IndentWidth)
         \o (IF Kind(items[1]) = "undef" THEN s_null
             ELSE stringifyAt(items[1], depth))
         \o (IF Len(items) = 1 THEN <<>> ELSE <<",", "\n">>)
         \o stringifyItems(Tail(items), depth)

\* The properties of an object, one per line; undefined ones are left out.
stringifyProps(props, depth, first) ==
    IF props = <<>> THEN <<>>
    ELSE IF Kind(props[1][2]) = "undef"
         THEN stringifyProps(Tail(props), depth, first)
    ELSE (IF first THEN <<>> ELSE <<",", "\n">>)
         \o Spaces(depth * IndentWidth)
         \o Quote(props[1][1]) \o <<":", " ">>
         \o stringifyAt(props[1][2], depth)
         \o stringifyProps(Tail(props), depth, FALSE)

stringifyAt(v, depth) ==
    CASE Kind(v) = "null" -> s_null
      [] Kind(v) = "bool" -> IF v[2] THEN s_true ELSE s_false
      [] Kind(v) = "num" -> NumStr(v[2])
      [] Kind(v) = "str" -> Quote(v[2])
      [] Kind(v) = "arr" ->
            IF v[2] = <<>> THEN <<"[", "]">>
            ELSE <<"[", "\n">> \o stringifyItems(v[2], depth + 1)
                 \o <<"\n">> \o Spaces(depth * IndentWidth) \o <<"]">>
      [] Kind(v) = "obj" ->
            LET body == stringifyProps(v[2], depth + 1, TRUE) IN
            IF body = <<>> THEN <<"{", "}">>
            ELSE <<"{", "\n">> \o body
                 \o <<"\n">> \o Spaces(depth * IndentWidth) \o <<"}">>
      [] OTHER -> s_undefined

JsonStringify(v) == stringifyAt(v, 0)

-----------------------------------------------------------------------------
(* Response formatters (xmtpService.ts)                                    *)

s_NA == <<"N","/","A">>
s_result == <<"r","e","s","u","l","t">>
s_name == <<"n","a","m","e">>
s_author_handle == <<"a","u","t","h","o","r","_","h","a","n","d","l","e">>
s_bio == <<"b","i","o">>
s_profile_image_url == <<"p","r","o","f","i","l","e","_","i","m","a","g",
    "e","_","u","r","l">>
s_followers_count == <<"f","o","l","l","o","w","e","r","s","_","c","o","u",
    "n","t">>
s_tags == <<"t","a","g","s">>
s_followings == <<"f","o","l","l","o","w","i","n","g","s">>
s_profile_name == <<"p","r","o","f","i","l","e","_","n","a","m","e">>
s_handle == <<"h","a","n","d","l","e">>
s_smart_followers == <<"s","m","a","r","t","_","f","o","l","l","o","w","e",
    "r","s">>
s_body == <<"b","o","d","y">>
s_tweet_create_time == <<"t","w","e","e","t","_","c","r","e","a","t","e",
    "_","t","i","m","e">>
s_view_count == <<"v","i","e","w","_","c","o","u","n","t">>
s_like_count == <<"l","i","k","e","_","c","o","u","n","t">>
s_reply_count == <<"r","e","p","l","y","_","c","o","u","n","t">>
s_retweet_count == <<"r","e","t","w","e","e","t","_","c","o","u","n","t">>
s_tweet_category == <<"t","w","e","e","t","_","c","a","t","e","g","o","r",
    "y">>
s_errProfile == <<"E","r","r","o","r"," ","f","o","r","m","a","t","t","i",
    "n","g"," ","p","r","o","f","i","l","e"," ","d","a","t","a">>
s_errTweets == <<"E","r","r","o","r"," ","f","o","r","m","a","t","t","i",
    "n","g"," ","t","w","e","e","t","s"," ","d","a","t","a">>
s_errFollowers == <<"E","r","r","o","r"," ","f","o","r","m","a","t","t","i",
    "n","g"," ","f","o","l","l","o","w","e","r","s"," ","d","a","t","a">>
s_noTweets == <<"U+274C"," ","N","o"," ","t","w","e","e","t","s"," ","d",
    "a","t","a"," ","f","o","u","n","d">>
s_noFollowers == <<"U+274C"," ","N","o"," ","f","o","l","l","o","w","e","r",
    "s"," ","d","a","t","a"," ","f","o","u","n","d">>
t1_name == <<"U+1F464"," ","N","a","m","e",":"," ">>
t1_handle == <<"\n","U+1F3F7","U+FE0F"," ","H","a","n","d","l","e",":"," ">>
t1_bio == <<"\n","U+1F4DD"," ","B","i","o",":"," ">>
t1_image == <<"\n","U+1F5BC","U+FE0F"," ","P","r","o","f","i","l","e"," ",
    "I","m","a","g","e",":"," ">>
t1_followers == <<"\n","U+1F465"," ","F","o","l","l","o","w","e","r","s",
    ":"," ">>
t1_tags == <<"\n","U+1F3F7","U+FE0F"," ","T","a","g","s",":"," ">>
t3_head == <<"U+1F31F"," ","T","o","p"," ","S","m","a","r","t"," ","F","o",
    "l","l","o","w","e","r","s"," ","(">>
t_headEnd == <<")",":","\n","\n">>
t3_name == <<"."," ","U+1F464"," ">>
t3_handle == <<"\n"," "," "," ","U+1F3F7","U+FE0F"," ","@">>
t3_image == <<"\n"," "," "," ","U+1F5BC","U+FE0F"," ">>
t3_tags == <<"\n"," "," "," ","U+1F3F7","U+FE0F"," ">>
t3_followers == <<"\n"," "," "," ","U+1F465"," ">>
t3_smart == <<" ","f","o","l","l","o","w","e","r","s","\n"," "," "," ",
    "U+2B50"," ">>
t3_end == <<" ","s","m","a","r","t"," ","f","o","l","l","o","w","e","r","s",
    "\n","\n">>
t2_head == <<"U+1F426"," ","T","o","p"," ","T","w","e","e","t","s"," ","(">>
t2_body == <<"."," ","U+1F4DD"," ">>
t2_time == <<"\n"," "," "," ","U+1F4C5"," ">>
t2_views == <<"\n"," "," "," ","U+1F440"," ">>
t2_likes == <<" ","v","i","e","w","s","\n"," "," "," ","U+2764","U+FE0F",
    " ">>
t2_replies == <<" ","l","i","k","e","s","\n"," "," "," ","U+1F4AC"," ">>
t2_retweets == <<" ","r","e","p","l","i","e","s","\n"," "," "," ","U+1F504",
    " ">>
t2_category == <<" ","r","e","t","w","e","e","t","s","\n"," "," "," ",
    "U+1F3F7","U+FE0F"," ">>
t2_end == <<"\n","\n">>
s_ellipsis == <<".",".",".">>
s_commaSpace == <<","," ">>

\* Number(s) for a string of digits (white space around it ignored); -1
\* stands for NaN.
RECURSIVE digitsValue(_, _)
digitsValue(s, acc) ==
    IF s = <<>> THEN acc
    ELSE IF Head(s) \in Range(DigitChars)
         THEN digitsValue(Tail(s), acc * 10 + DigitValue(Head(s)))
    ELSE -1

\* ToNumber, as the comparison body.length > 200 applies it; -1 is NaN.
ToNumber(v) ==
    CASE Kind(v) = "num" -> v[2]
      [] Kind(v) = "undef" -> -1
      [] Kind(v) = "null" -> 0
      [] Kind(v) = "bool" -> IF v[2] THEN 1 ELSE 0
      [] Kind(v) = "str" -> digitsValue(trim(v[2]), 0)
      [] OTHER -> digitsValue(trim(StringOf(v)), 0)

\* Array.isArray(x) ? x.join(', ') : (x || 'N/A')
tagsText(x) ==
    IF IsArray(x) THEN joinValues(x[2], s_commaSpace)
    ELSE StringOf(Or(x, Str(s_NA)))

\* x || 'N/A', as a template literal prints it
orNA(x) == StringOf(Or(x, Str(s_NA)))

\* The try block of formatEndpoint1Response.
format1Try(data) ==
    IF IsNullish(data) THEN Throw
    ELSE LET result == Get(data, s_result) IN
    IF IsNullish(result) THEN Throw
    ELSE LET name == orNA(Get(result, s_name))
             authorHandle == orNA(Get(result, s_author_handle))
             bio == orNA(Get(result, s_bio))
             profileImageUrl == orNA(Get(result, s_profile_image_url))
             followersCount == orNA(Get(result, s_followers_count))
             tags == tagsText(Get(result, s_tags))
         IN  Return(t1_name \o name \o t1_handle \o authorHandle
                    \o t1_bio \o bio \o t1_image \o profileImageUrl
                    \o t1_followers \o followersCount \o t1_tags \o tags)

\* A slip: a failure of the try block is not caught.
formatEndpoint1Response_nocatch(data) == format1Try(data)

\* A slip: the bio is printed without its default.
formatEndpoint1Response_rawbio(data) ==
    IF Threw(format1Try(data)) THEN Return(s_errProfile)
    ELSE LET result == Get(data, s_result) IN
         Return(t1_name \o orNA(Get(result, s_name))
                \o t1_handle \o orNA(Get(result, s_author_handle))
                \o t1_bio \o StringOf(Get(result, s_bio))
                \o t1_image \o orNA(Get(result, s_profile_image_url))
                \o t1_followers \o orNA(Get(result, s_followers_count))
                \o t1_tags \o tagsText(Get(result, s_tags)))

\* A mutant of formatEndpoint1Response: the text is stamped with the date.
formatEndpoint1Response_stamped(data) ==
    LET r == format1Try(data) IN
    IF Threw(r) THEN Return(s_errProfile) ELSE Return(r[2] \o NumStr(now))

formatEndpoint1Response(data) ==
    LET r == format1Try(data) IN
    IF Threw(r) THEN Return(s_errProfile) ELSE r

\* formatEndpoint1Response of index.ts: the same fields, the image first.
c1_name == <<"\n","\n","U+1F464"," ","N","a","m","e",":"," ">>
c1_followers == <<"\n","U+1F465"," ","F","o","l","l","o","w","e","r","s",
    ":"," ">>

cli_format1Try(data) ==
    IF IsNullish(data) THEN Throw
    ELSE LET result == Get(data, s_result) IN
    IF IsNullish(result) THEN Throw
    ELSE Return(orNA(Get(result, s_profile_image_url))
                \o c1_name \o orNA(Get(result, s_name))
                \o t1_handle \o orNA(Get(result, s_author_handle))
                \o t1_bio \o orNA(Get(result, s_bio))
                \o c1_followers \o orNA(Get(result, s_followers_count))
                \o t1_tags \o tagsText(Get(result, s_tags)))

cli_formatEndpoint1Response(data) ==
    LET r == cli_format1Try(data) IN
    IF Threw(r) THEN Return(s_errProfile) ELSE r

\* followings.forEach(...): the blocks appended to response, or a throw.
RECURSIVE followersLoop(_, _, _)
followersLoop(items, index, response) ==
    IF index > Len(items) THEN Return(response)
    ELSE LET follower == items[index] IN
    IF IsNullish(follower) THEN Throw
    ELSE followersLoop(items, index + 1,
            response \o NumStr(index)
            \o t3_name \o orNA(Get(follower, s_profile_name))
            \o t3_handle \o orNA(Get(follower, s_handle))
            \o t3_image \o orNA(Get(follower, s_profile_image_url))
            \o t3_tags \o tagsText(Get(follower, s_tags))
            \o t3_followers \o orNA(Get(follower, s_followers_count))
            \o t3_smart \o orNA(Get(follower, s_smart_followers))
            \o t3_end)

\* The try block of formatEndpoint3Response.
format3Try(data) ==
    IF IsNullish(data) THEN Throw
    ELSE LET result == Get(data, s_result) IN
    IF IsNullish(result) THEN Throw
    ELSE LET followings == Or(Get(result, s_followings), Arr(<<>>)) IN
    IF Get(followings, s_length) = Num(0) THEN Return(s_noFollowers)
    ELSE IF ~IsArray(followings) THEN Throw   \* forEach is not a function
    ELSE LET r == followersLoop(followings[2], 1,
                      t3_head \o StringOf(Get(followings, s_length)) \o t_headEnd)
         IN  IF Threw(r) THEN Throw ELSE Return(trim(r[2]))

formatEndpoint3Response(data) ==
    LET r == format3Try(data) IN
    IF Threw(r) THEN Return(s_errFollowers) ELSE r

TruncateAt == 200

\* body.length > 200 ? body.substring(0, 200) + '...' : body, or a throw
\* when body has a length above 200 and no substring method.
truncatedBody(body) ==
    IF ToNumber(Get(body, s_length)) > TruncateAt
    THEN IF Kind(body) = "str"
         THEN Return(substring(body[2], 0, TruncateAt) \o s_ellipsis)
         ELSE Throw
    ELSE Return(StringOf(body))

\* tweets.forEach(...)
RECURSIVE tweetsLoop(_, _, _)
tweetsLoop(items, index, response) ==
    IF index > Len(items) THEN Return(response)
    ELSE LET tweet == items[index] IN
    IF IsNullish(tweet) THEN Throw
    ELSE LET body == truncatedBody(Or(Get(tweet, s_body), Str(s_NA))) IN
    IF Threw(body) THEN Throw
    ELSE tweetsLoop(items, index + 1,
            response \o NumStr(index)
            \o t2_body \o body[2]
            \o t2_time \o orNA(Get(tweet, s_tweet_create_time))
            \o t2_views \o orNA(Get(tweet, s_view_count))
            \o t2_likes \o orNA(Get(tweet, s_like_count))
            \o t2_replies \o orNA(Get(tweet, s_reply_count))
            \o t2_retweets \o orNA(Get(tweet, s_retweet_count))
            \o t2_category \o orNA(Get(tweet, s_tweet_category))
            \o t2_end)

\* The try block of formatEndpoint2Response.
format2Try(data) ==
    IF IsNullish(data) THEN Throw
    ELSE LET tweets == Or(Get(data, s_result), Arr(<<>>)) IN
    IF Get(tweets, s_length) = Num(0) THEN Return(s_noTweets)
    ELSE IF ~IsArray(tweets) THEN Throw       \* forEach is not a function
    ELSE LET r == tweetsLoop(tweets[2], 1,
                      t2_head \o StringOf(Get(tweets, s_length)) \o t_headEnd)
         IN  IF Threw(r) THEN Throw ELSE Return(trim(r[2]))

\* A slip: a missing result is read as data.result.length, which throws.
formatEndpoint2Response_nodefault(data) ==
    IF IsNullish(data) \/ IsNullish(Get(data, s_result))
    THEN Return(s_errTweets)
    ELSE IF Threw(format2Try(data)) THEN Return(s_errTweets)
    ELSE format2Try(data)

formatEndpoint2Response(data) ==
    LET r == format2Try(data) IN
    IF Threw(r) THEN Return(s_errTweets) ELSE r

-----------------------------------------------------------------------------
(* Lookup client                                                           *)

url1_head == <<"h","t","t","p","s",":","/","/","a","p","i",".","c","r","e",
    "d",".","b","u","z","z","/","u","s","e","r","/","a","u","t","h","o","r",
    "-","h","a","n","d","l","e","-","d","e","t","a","i","l","s","?","a","u",
    "t","h","o","r","_","h","a","n","d","l","e","=">>
url2_head == <<"h","t","t","p","s",":","/","/","a","p","i",".","c","r","e",
    "d",".","b","u","z","z","/","u","s","e","r","/","g","e","t","-","t","o",
    "p","-","t","w","e","e","t","s","?","a","u","t","h","o","r","_","h","a",
    "n","d","l","e","=">>
url2_tail == <<"&","i","n","t","e","r","v","a","l","=","7","d","a","y","&",
    "s","o","r","t","_","b","y","=","v","i","e","w","_","c","o","u","n","t",
    "_","d","e","s","c","&","l","i","m","i","t","=","5">>
url3_head == <<"h","t","t","p","s",":","/","/","a","p","i",".","c","r","e",
    "d",".","b","u","z","z","/","u","s","e","r","/","a","u","t","h","o","r",
    "-","h","a","n","d","l","e","-","f","o","l","l","o","w","e","r","s","?",
    "a","u","t","h","o","r","_","h","a","n","d","l","e","=">>
url3_tail == <<"&","s","o","r","t","_","b","y","=","s","m","a","r","t","_",
    "f","o","l","l","o","w","e","r","s","_","c","o","u","n","t","_","d","e",
    "s","c","&","l","i","m","i","t","=","1","0","&","s","t","a","r","t","=",
    "0">>
s_endpoint_used == <<"e","n","d","p","o","i","n","t","_","u","s","e","d">>
s_data == <<"d","a","t","a">>
s_raw_data == <<"r","a","w","_","d","a","t","a">>
s_parseFailed == <<"F","a","i","l","e","d"," ","t","o"," ","p","a","r","s",
    "e"," ","r","e","s","p","o","n","s","e">>
s_timeout == <<"R","e","q","u","e","s","t"," ","t","i","m","e","o","u","t">>
s_socketHangUp == <<"s","o","c","k","e","t"," ","h","a","n","g"," ","u",
    "p">>

s_error == <<"e","r","r","o","r">>
s_message == <<"m","e","s","s","a","g","e">>

\* A code unit that is half of a surrogate pair, on its own.
LoneSurrogate == "U+D800"

\* encodeURIComponent for one character: the unreserved characters stay,
\* the other ASCII characters become %XX.
EscapedChars ==
    << <<" ", <<"%","2","0">>>>, <<"@", <<"%","4","0">>>>,
       <<"?", <<"%","3","F">>>>, <<"/", <<"%","2","F">>>>,
       <<"&", <<"%","2","6">>>>, <<"=", <<"%","3","D">>>>,
       <<"#", <<"%","2","3">>>>, <<"%", <<"%","2","5">>>>,
       <<"+", <<"%","2","B">>>>, <<":", <<"%","3","A">>>>,
       <<"$", <<"%","2","4">>>>, <<",", <<"%","2","C">>>>,
       <<"\"", <<"%","2","2">>>>, <<"\n", <<"%","0","A">>>>,
       <<"\t", <<"%","0","9">>>>, <<"\r", <<"%","0","D">>>> >>

encodeChar(c) ==
    IF \E i \in DOMAIN EscapedChars : EscapedChars[i][1] = c
    THEN EscapedChars[CHOOSE i \in DOMAIN EscapedChars : EscapedChars[i][1] = c][2]
    ELSE <<c>>

\* encodeURIComponent(s): throws URIError on a lone surrogate.
encodeURIComponent(s) ==
    IF \E i \in DOMAIN s : s[i] = LoneSurrogate THEN Throw
    ELSE Return(Concat([i \in DOMAIN s |-> encodeChar(s[i])]))

\* The switch of makeApiCall: the template with author_value replaced.
urlFor(endpoint, encoded) ==
    CASE endpoint = s_endpoint1 -> url1_head \o encoded
      [] endpoint = s_endpoint2 -> url2_head \o encoded \o url2_tail
      [] endpoint = s_endpoint3 -> url3_head \o encoded \o url3_tail
      [] OTHER -> url1_head \o encoded

Pending == <<"pending">>
Resolved(v) == <<"resolved", v>>
Rejected == <<"rejected">>

\* The three shapes of the value makeApiCall resolves with.
successResult(endpoint, authorHandle, parsedData) ==
    Obj(<< <<s_endpoint_used, Str(endpoint)>>,
           <<s_author_handle, Str(authorHandle)>>,
           <<s_data, parsedData>> >>)

parseFailureResult(endpoint, authorHandle, data) ==
    Obj(<< <<s_endpoint_used, Str(endpoint)>>,
           <<s_author_handle, Str(authorHandle)>>,
           <<s_error, Str(s_parseFailed)>>,
           <<s_raw_data, Str(data)>> >>)

errorResult(endpoint, authorHandle, message) ==
    Obj(<< <<s_endpoint_used, Str(endpoint)>>,
           <<s_author_handle, Str(authorHandle)>>,
           <<s_error, Str(message)>> >>)

\* A slip: a later settle replaces the value of the promise.
resolve_lastwins(c, value) == [c EXCEPT !.promise = Resolved(value)]

\* resolve(value): settles the promise unless it is settled already.
resolve(c, value) ==
    IF c.promise = Pending THEN [c EXCEPT !.promise = Resolved(value)] ELSE c

\* The executor of the promise, up to https.get and req.setTimeout: phase
\* "sent" is a request with no response yet; an exception in the executor
\* rejects the promise.
makeApiCall(endpoint, authorHandle) ==
    LET enc == encodeURIComponent(authorHandle) IN
    IF Threw(enc)
    THEN [endpoint |-> endpoint, authorHandle |-> authorHandle, url |-> <<>>,
          phase |-> "failed", data |-> <<>>, destroyed |-> FALSE,
          promise |-> Rejected]
    ELSE [endpoint |-> endpoint, authorHandle |-> authorHandle,
          url |-> urlFor(endpoint, enc[2]),
          phase |-> "sent", data |-> <<>>, destroyed |-> FALSE,
          promise |-> Pending]

\* The response callback: let data = ''.
onResponse(c) == [c EXCEPT !.phase = "body", !.data = <<>>]

\* res.on('data'): data += chunk
onData(c, chunk) == [c EXCEPT !.data = @ \o chunk]

\* res.on('end')
onEnd(c) ==
    LET parsed == JsonParse(c.data)
        done == [c EXCEPT !.phase = "closed"]
    IN  IF Returned(parsed)
        THEN resolve(done, successResult(c.endpoint, c.authorHandle, parsed[2]))
        ELSE resolve(done, parseFailureResult(c.endpoint, c.authorHandle, c.data))

\* req.on('error')
onError(c, message) ==
    resolve([c EXCEPT !.phase = "closed"],
            errorResult(c.endpoint, c.authorHandle, message))

\* req.on('timeout'): req.destroy(), then resolve
onTimeout(c) ==
    resolve([c EXCEPT !.phase = "closed", !.destroyed = TRUE],
            errorResult(c.endpoint, c.authorHandle, s_timeout))

\* The connection ends while the body is being received: the response
\* emits 'aborted' and 'close', for which no handler is registered, and the
\* request emits no 'error'.
onPrematureClose(c) == [c EXCEPT !.phase = "closed"]

\* No call has been made.
IdleCall ==
    [endpoint |-> <<>>, authorHandle |-> <<>>, url |-> <<>>, phase |-> "idle",
     data |-> <<>>, destroyed |-> FALSE, promise |-> Pending]
\* abortError: the 'error' event that destroying a request without a
\* response raises ("socket hang up") has yet to be delivered.
IdleNet == [body |-> <<>>, sent |-> 0, abortError |-> FALSE]
LkIdle == call = IdleCall /\ net = IdleNet /\ lkLog = <<>>

-----------------------------------------------------------------------------
(* The XMTP service: guards of the listener loop, reply and message store  *)

s_text == <<"t","e","x","t">>
s_Agent == <<"A","g","e","n","t">>
s_failed == <<"F","a","i","l","e","d"," ","t","o"," ","p","r","o","c","e",
    "s","s"," ","r","e","q","u","e","s","t">>

\* An inbound message of the stream: contentType?.typeId and content are
\* JavaScript values.
NoMessage ==
    [senderInboxId |-> <<>>, typeId |-> Undef, content |-> Undef,
     conversationId |-> <<>>]

\* A slip: the sender is compared with the agent's id letter for letter.
isOwnOrNotText_exact(message, inboxId) ==
    \/ message.senderInboxId = inboxId
    \/ message.typeId # Str(s_text)

\* The first guard of the loop: the agent's own messages and messages that
\* are not text.
isOwnOrNotText(message, inboxId) ==
    \/ toLowerCase(message.senderInboxId) = toLowerCase(inboxId)
    \/ message.typeId # Str(s_text)

\* typeof message.content === 'string' ? message.content : ''
messageContentOf(message) ==
    IF Kind(message.content) = "str" THEN message.content[2] ELSE <<>>

\* The choice of the reply text from the result of the lookup.
responseMessageOf(selectedEndpoint, apiResponse) ==
    IF Truthy(Get(apiResponse, s_data)) /\ ~Truthy(Get(apiResponse, s_error))
    THEN LET data == Get(apiResponse, s_data) IN
         IF selectedEndpoint = s_endpoint1 THEN formatEndpoint1Response(data)[2]
         ELSE IF selectedEndpoint = s_endpoint2 THEN formatEndpoint2Response(data)[2]
         ELSE IF selectedEndpoint = s_endpoint3 THEN formatEndpoint3Response(data)[2]
         ELSE JsonStringify(apiResponse)
    ELSE JsonStringify(apiResponse)

\* The reply of the catch block.
errorEnvelope == JsonStringify(Obj(<< <<s_error, Str(s_failed)>> >>))

\* messageStore.addMessage, with the value of new Date() at the call.  The
\* store is the Map as the sequence of its values in insertion order; ids
\* and time stamps of messages are left out of the records.
hasConversation(st, conversationId) ==
    \E i \in DOMAIN st : st[i].id = conversationId

\* A mutant of addMessage: lastActivity is set at creation only.
addMessage_stale(st, message, conversationId, participantAddress, date) ==
    LET all == IF hasConversation(st, conversationId) THEN st
               ELSE Append(st, [id |-> conversationId,
                                participantAddress |-> participantAddress,
                                messages |-> <<>>,
                                lastActivity |-> date])
    IN  [i \in DOMAIN all |->
            IF all[i].id = conversationId
            THEN [all[i] EXCEPT !.messages = Append(@, message)]
            ELSE all[i]]

addMessage(st, message, conversationId, participantAddress, date) ==
    LET all == IF hasConversation(st, conversationId) THEN st
               ELSE Append(st, [id |-> conversationId,
                                participantAddress |-> participantAddress,
                                messages |-> <<>>,
                                lastActivity |-> date])
    IN  [i \in DOMAIN all |->
            IF all[i].id = conversationId
            THEN [all[i] EXCEPT !.messages = Append(@, message),
                                !.lastActivity = date]
            ELSE all[i]]

s_You == <<"Y","o","u">>

\* messageStore.markOutgoingMessage
markOutgoingMessage(st, conversationId, content, date) ==
    [i \in DOMAIN st |->
        IF st[i].id = conversationId
        THEN [st[i] EXCEPT
                 !.messages = Append(@, [sender |-> s_You, content |-> content,
                                         type |-> "outgoing",
                                         conversationId |-> conversationId]),
                 !.lastActivity = date]
        ELSE st[i]]

\* Array.prototype.sort with (a, b) => b.lastActivity - a.lastActivity: the
\* sort is stable, conversations of equal lastActivity keep their order.
RECURSIVE sortByLastActivity(_)
sortByLastActivity(s) ==
    IF s = <<>> THEN <<>>
    ELSE LET front == sortByLastActivity(SubSeq(s, 1, Len(s) - 1))
             last == s[Len(s)]
             before == { i \in DOMAIN front :
                            front[i].lastActivity >= last.lastActivity }
             k == Cardinality(before)
         IN  SubSeq(front, 1, k) \o <<last>> \o SubSeq(front, k + 1, Len(front))

\* messageStore.getConversations: a sorted copy of the values of the Map
getConversations(st) == sortByLastActivity(st)

incomingMessage(sender, content, conversationId) ==
    [sender |-> sender, content |-> content, type |-> "incoming",
     conversationId |-> conversationId]

outgoingMessage(content, conversationId) ==
    [sender |-> s_Agent, content |-> content, type |-> "outgoing",
     conversationId |-> conversationId]

\* The listener before start(): pc is the await the run is at.
IdleListener ==
    [pc |-> "none", message |-> NoMessage, addressFromInboxId |-> <<>>,
     messageContent |-> <<>>, selectedEndpoint |-> <<>>,
     authorHandle |-> <<>>, responseMessage |-> <<>>]

\* The calls made so far: send is the send of the reply of the try block,
\* errorReply the send of the catch block.
NoCalls ==
    [classifier |-> 0, extractor |-> 0, lookup |-> 0, send |-> 0,
     errorReply |-> 0]

\* No message has arrived, start() and stop() have not been called.
LcIdle ==
    /\ feed = <<>>
    /\ starts = <<>>
    /\ runs = <<>>
    /\ takes = <<>>
    /\ stopMark = [open |-> FALSE, feed |-> 0]
    /\ now = 0

\* The service after construction.
SvIdle ==
    /\ client = "null"
    /\ isRunning = FALSE
    /\ starting = FALSE
    /\ listener = IdleListener
    /\ store = <<>>
    /\ taken = <<>>
    /\ atTake = [calls |-> NoCalls, store |-> <<>>]
    /\ calls = NoCalls
    /\ sent = <<>>

-----------------------------------------------------------------------------
(* Inputs of the text adapters                                             *)

UpperOf(c) ==
    IF \E i \in DOMAIN LowerChars : LowerChars[i] = c
    THEN UpperChars[CHOOSE i \in DOMAIN LowerChars : LowerChars[i] = c]
    ELSE c
toUpperCase(s) == [i \in DOMAIN s |-> UpperOf(s[i])]
Capitalised(s) == IF s = <<>> THEN s ELSE <<UpperOf(Head(s))>> \o Tail(s)

\* White space the completion service may put around its answer.
Pads == { <<>>, <<" ">>, <<"\n">>, <<"\t", " ">> }

\* Answers of the classifier service: the three identifiers in several
\* spellings, and answers that are none of them.
ClassifierCores ==
    ActionIds
    \cup { toUpperCase(a) : a \in ActionIds }
    \cup { Capitalised(a) : a \in ActionIds }
    \cup { <<>>,
           <<"e","n","d","p","o","i","n","t","4">>,
           <<"e","n","d","p","o","i","n","t">>,
           <<"e","n","d","p","o","i","n","t"," ","1">>,
           <<"e","n","d","p","o","i","n","t","2",".">>,
           <<"-"," ","e","n","d","p","o","i","n","t","3">>,
           <<"e","n","d","p","o","i","n","t","1","\n",
             "e","n","d","p","o","i","n","t","2">>,
           <<"I"," ","c","a","n","n","o","t">> }

ClassifierAnswers ==
    { p \o c \o q : p \in Pads, c \in ClassifierCores, q \in Pads }

\* Message texts: up to MaxTokens tokens joined by single spaces.  The empty
\* token gives leading, trailing and doubled spaces.
MaxTokens == 3
Tokens == { <<>>, <<"@">>, <<"@","a","b">>, <<"a","b","c">>, <<"h","i">>,
            <<"?">>, <<"a","_","1">>, <<"@","@","x">> }

RECURSIVE joinWith(_, _)
joinWith(ws, sep) ==
    IF ws = <<>> THEN <<>>
    ELSE IF Len(ws) = 1 THEN ws[1]
    ELSE ws[1] \o sep \o joinWith(Tail(ws), sep)

TokenLists == UNION { [1..n -> Tokens] : n \in 0..MaxTokens }
Messages == { joinWith(ws, <<" ">>) : ws \in TokenLists }

\* Three messages of the prompt examples.
m_profile == <<"k","a","i","t","o","a","i"," ","p","r","o","f","i","l","e">>
m_details == <<"G","e","t"," ","d","e","t","a","i","l","s"," ","f","o","r",
               " ","@","e","l","o","n","m","u","s","k">>
m_naval == <<"f","o","l","l","o","w","e","r","s"," ","o","f"," ",
             "@","n","a","v","a","l","?">>
SampleMessages == { m_profile, m_details, m_naval }

\* Answers of the extractor service.
ExtractorAnswers ==
    { p \o c \o q : p \in Pads,
                    c \in { <<>>, <<"a","b">>, <<"@","a","b">>, <<"@","@","x">>,
                            <<"a","@","b">>, <<"@"," ","a">>, <<"a"," ","b">> },
                    q \in Pads }

None == <<"none">>

FnIdle == fn = "none" /\ fnArg = None /\ fnSvc = None /\ fnOut = None

-----------------------------------------------------------------------------
(* Specification of the classifier adapter alone                           *)

ClassifyInit ==
    /\ LkIdle
    /\ SvIdle
    /\ LcIdle
    /\ fn = "none"
    /\ fnArg \in SampleMessages \cup {<<>>}
    /\ fnSvc = None
    /\ fnOut = None

\* One call of decideApiEndpoint; the service answers anything or throws.
Classify ==
    /\ fn = "none"
    /\ \E svc \in { SvcText(a) : a \in ClassifierAnswers } \cup {SvcThrow} :
          /\ fnSvc' = svc
          /\ fnOut' = decideApiEndpoint(fnArg, svc)
    /\ fn' = "decideApiEndpoint"
    /\ UNCHANGED <<fnArg, lkVars, svVars, lcVars>>

SpecClassify == ClassifyInit /\ [][Classify]_vars

-----------------------------------------------------------------------------
(* Specification of the parameter extractor alone                          *)

ExtractInit ==
    /\ LkIdle
    /\ SvIdle
    /\ LcIdle
    /\ fn = "none"
    /\ fnArg \in Messages \cup SampleMessages
    /\ fnSvc = None
    /\ fnOut = None

\* One call of extractAuthorHandle whose service call succeeds.
ExtractWithService ==
    /\ fn = "none"
    /\ \E a \in ExtractorAnswers :
          /\ fnSvc' = SvcText(a)
          /\ fnOut' = extractAuthorHandle(fnArg, SvcText(a))
    /\ fn' = "extractAuthorHandle"
    /\ UNCHANGED <<fnArg, lkVars, svVars, lcVars>>

\* One call of extractAuthorHandle whose service call fails.
ExtractFallback ==
    /\ fn = "none"
    /\ fnSvc' = SvcThrow
    /\ fnOut' = extractAuthorHandle(fnArg, SvcThrow)
    /\ fn' = "extractAuthorHandle"
    /\ UNCHANGED <<fnArg, lkVars, svVars, lcVars>>

SpecExtract == ExtractInit /\ [][ExtractWithService \/ ExtractFallback]_vars

-----------------------------------------------------------------------------
(* Payloads handed to the formatters                                       *)

\* An object with the given properties, the undefined ones left out.
RECURSIVE propsOf(_)
propsOf(pairs) ==
    IF pairs = <<>> THEN <<>>
    ELSE IF Kind(pairs[1][2]) = "undef" THEN propsOf(Tail(pairs))
    ELSE <<pairs[1]>> \o propsOf(Tail(pairs))

MkObj(pairs) == Obj(propsOf(pairs))

\* A string of n characters c.
Repeat(c, n) == [i \in 1..n |-> c]

\* Profile payloads {result: {...}}: every field absent, or present with a
\* value that is or is not falsy.
ProfileChoices ==
    [ name : { Undef, Str(<<"V","i","t","a","l","i","k">>), Str(<<>>) },
      author_handle : { Undef, Str(<<"v","i","t","a","l","i","k">>) },
      bio : { Undef, Str(s_NA), Str(<<"h","i"," ","!">>), Null },
      profile_image_url : { Undef, Str(<<"h","t","t","p",":","/","/","i">>) },
      followers_count : { Undef, Num(0), Num(100000) },
      tags : { Undef, Arr(<<Str(<<"e","t","h">>), Str(<<"d","e","v">>)>>),
               Arr(<<>>), Str(<<"d","e","f","i">>), Str(<<>>) } ]

ProfileResult(c) ==
    MkObj(<< <<s_name, c.name>>, <<s_author_handle, c.author_handle>>,
             <<s_bio, c.bio>>, <<s_profile_image_url, c.profile_image_url>>,
             <<s_followers_count, c.followers_count>>, <<s_tags, c.tags>> >>)

ProfilePayloads ==
    { Obj(<< <<s_result, ProfileResult(c)>> >>) : c \in ProfileChoices }

\* Items of the tweet and follower lists.
MaxItems == 2
BodyShort == <<"g","m"," ","@","a","l","l">>
TweetItems ==
    { MkObj(<< <<s_body, b>>, <<s_tweet_create_time, ct>>, <<s_view_count, n>>,
               <<s_like_count, Num(7)>>, <<s_tweet_category, cat>> >>) :
        b \in { Undef, Str(<<>>), Str(BodyShort), Str(Repeat("x", TruncateAt)),
                Str(Repeat("x", TruncateAt + 1)), Str(Repeat("y", 250)) },
        ct \in { Undef, Str(<<"2","0","2","5">>) },
        n \in { Undef, Num(0), Num(12) },
        cat \in { Undef, Str(<<"n","e","w","s"," ">>) } }
    \cup { Null, Obj(<<>>), Str(<<"t">>),
           Obj(<< <<s_body, Arr(<<Str(<<"a">>), Num(1)>>)>> >>),
           Obj(<< <<s_body, Obj(<< <<s_length, Num(201)>> >>)>> >>) }

FollowerItems ==
    { MkObj(<< <<s_profile_name, pn>>, <<s_handle, Str(<<"b","o","b">>)>>,
               <<s_tags, tg>>, <<s_followers_count, n>>,
               <<s_smart_followers, sf>> >>) :
        pn \in { Undef, Str(<<"B","o","b">>) },
        tg \in { Undef, Arr(<<Str(<<"a">>), Str(<<"b">>)>>), Str(<<"t">>) },
        n \in { Undef, Num(0), Num(5) },
        sf \in { Undef, Num(0), Num(3) } }
    \cup { Null, Obj(<<>>) }

ItemLists(S) == UNION { [1..n -> S] : n \in 0..MaxItems }

\* A few lists only: the lists of all items would be too many.
TweetSamples ==
    { Null, Obj(<<>>),
      MkObj(<< <<s_body, Str(BodyShort)>>, <<s_view_count, Num(0)>>,
               <<s_like_count, Num(7)>> >>),
      MkObj(<< <<s_body, Str(Repeat("y", 250))>>,
               <<s_tweet_category, Str(<<"n","e","w","s"," ">>)>> >>) }
FollowerSamples ==
    { Null, Obj(<<>>),
      MkObj(<< <<s_profile_name, Str(<<"B","o","b">>)>>,
               <<s_smart_followers, Num(0)>>,
               <<s_tags, Arr(<<Str(<<"a">>), Str(<<"b">>)>>)>> >>) }

TweetPayloads ==
    { Obj(<< <<s_result, Arr(<<x>>)>> >>) : x \in TweetItems }
    \cup { Obj(<< <<s_result, Arr(l)>> >>) : l \in ItemLists(TweetSamples) }

FollowerPayloads ==
    { Obj(<< <<s_result, Obj(<< <<s_followings, Arr(<<x>>)>> >>)>> >>) :
        x \in FollowerItems }
    \cup { Obj(<< <<s_result, Obj(<< <<s_followings, Arr(l)>> >>)>> >>) :
             l \in ItemLists(FollowerSamples) }

\* Payloads of another shape: no result at all, or a result that is not
\* what the formatter expects.
OddResults ==
    { Null, Num(0), Num(5), Bool(FALSE), Bool(TRUE), Str(<<>>), Str(<<"o","k">>),
      Obj(<<>>), Arr(<<>>), Obj(<< <<s_length, Num(0)>> >>),
      Obj(<< <<s_followings, Null>> >>),
      Obj(<< <<s_followings, Str(<<"a","b">>)>> >>),
      Obj(<< <<s_followings, Obj(<< <<s_length, Num(0)>> >>)>> >>) }

OddPayloads ==
    { Null, Num(0), Num(5), Bool(FALSE), Bool(TRUE), Str(<<>>), Str(<<"o","k">>),
      Arr(<<>>), Arr(<<Num(1)>>), Obj(<<>>),
      Obj(<< <<s_error, Str(<<"n","o">>)>> >>),
      Obj(<< <<s_message, Str(<<"n","o">>)>>, <<s_tags, Arr(<<>>)>> >>) }
    \cup { Obj(<< <<s_result, r>> >>) : r \in OddResults }

Payloads == ProfilePayloads \cup TweetPayloads \cup FollowerPayloads \cup OddPayloads

-----------------------------------------------------------------------------
(* Specification of the formatters alone                                   *)

FormatInit ==
    /\ LkIdle
    /\ SvIdle
    /\ LcIdle
    /\ fn = "none"
    /\ fnArg \in Payloads
    /\ fnSvc = None
    /\ fnOut = None

Format1 ==
    /\ fn = "none"
    /\ fn' = "formatEndpoint1Response"
    /\ fnOut' = formatEndpoint1Response(fnArg)
    /\ UNCHANGED <<fnArg, fnSvc, lkVars, svVars, lcVars>>

Format2 ==
    /\ fn = "none"
    /\ fn' = "formatEndpoint2Response"
    /\ fnOut' = formatEndpoint2Response(fnArg)
    /\ UNCHANGED <<fnArg, fnSvc, lkVars, svVars, lcVars>>

Format3 ==
    /\ fn = "none"
    /\ fn' = "formatEndpoint3Response"
    /\ fnOut' = formatEndpoint3Response(fnArg)
    /\ UNCHANGED <<fnArg, fnSvc, lkVars, svVars, lcVars>>

CliFormat1 ==
    /\ fn = "none"
    /\ fn' = "cli_formatEndpoint1Response"
    /\ fnOut' = cli_formatEndpoint1Response(fnArg)
    /\ UNCHANGED <<fnArg, fnSvc, lkVars, svVars, lcVars>>

SpecFormat == FormatInit /\ [][Format1 \/ Format2 \/ Format3 \/ CliFormat1]_vars

-----------------------------------------------------------------------------
(* Specification of the lookup client alone: one makeApiCall and the       *)
(* events of its transport                                                 *)

\* Response bodies: JSON texts, and texts that are not JSON.
b_null == <<"n","u","l","l">>
b_zero == <<"0">>
b_false == <<"f","a","l","s","e">>
b_emptyString == <<"\"","\"">>
b_emptyObject == <<"{","}">>
b_profile == <<"{","\"","r","e","s","u","l","t","\"",":","{","\"","n","a",
    "m","e","\"",":","\"","V","\"",",","\"","f","o","l","l","o","w","e","r",
    "s","_","c","o","u","n","t","\"",":","0","}","}">>
b_tweets == <<"{","\"","r","e","s","u","l","t","\"",":"," ","[","{","\"",
    "b","o","d","y","\"",":","\"","g","m","\"","}","]","}","\n">>
b_followers == <<"{","\"","r","e","s","u","l","t","\"",":","{","\"","f","o",
    "l","l","o","w","i","n","g","s","\"",":","[","]","}","}">>
b_notFound == <<"{","\"","e","r","r","o","r","\"",":","\"","n","o","\"",
    "}">>
b_empty == <<>>
b_html == <<"<","h","t","m","l",">">>
b_cut == <<"{","\"","r","e","s","u","l","t","\"",":">>
b_text == <<"N","o","t"," ","F","o","u","n","d">>
b_trailing == <<"{","}","x">>
Bodies == { b_null, b_zero, b_false, b_emptyString, b_emptyObject, b_profile,
            b_tweets, b_followers, b_notFound, b_empty, b_html, b_cut,
            b_text, b_trailing }

s_econnreset == <<"r","e","a","d"," ","E","C","O","N","N","R","E","S","E","T">>
ErrorMessages == { s_econnreset, <<>> }

LookupHandles == { <<"a","b">>, <<"@","a"," ","b">>, <<LoneSurrogate>> }
LookupEndpoints == ActionIds \cup { <<"o","t","h","e","r">> }


LookupInit ==
    /\ FnIdle
    /\ SvIdle
    /\ LcIdle
    /\ call = IdleCall
    /\ net = IdleNet
    /\ lkLog = <<>>

LkStart ==
    /\ call.phase = "idle"
    /\ \E endpoint \in LookupEndpoints, authorHandle \in LookupHandles :
          call' = makeApiCall(endpoint, authorHandle)
    /\ UNCHANGED <<net, lkLog, fnVars, lcVars, svVars>>

\* The response arrives: the callback of https.get runs.
LkResponse ==
    /\ call.phase = "sent"
    /\ \E b \in Bodies : net' = [net EXCEPT !.body = b]
    /\ call' = onResponse(call)
    /\ UNCHANGED <<lkLog, fnVars, lcVars, svVars>>

\* The next chunk of the body arrives.
LkData ==
    /\ call.phase = "body"
    /\ \E k \in 1..(Len(net.body) - net.sent) :
          /\ call' = onData(call, SubSeq(net.body, net.sent + 1, net.sent + k))
          /\ net' = [net EXCEPT !.sent = @ + k]
    /\ UNCHANGED <<lkLog, fnVars, lcVars, svVars>>

\* The body is complete.
LkEnd ==
    /\ call.phase = "body"
    /\ net.sent = Len(net.body)
    /\ call' = onEnd(call)
    /\ lkLog' = Append(lkLog, <<"end">>)
    /\ UNCHANGED <<net, fnVars, lcVars, svVars>>

\* The socket fails (DNS, connection refused or reset), before or during
\* the response.
LkError ==
    /\ call.phase \in {"sent", "body"}
    /\ \E message \in ErrorMessages :
          /\ call' = onError(call, message)
          /\ lkLog' = Append(lkLog, <<"error", message>>)
    /\ UNCHANGED <<net, fnVars, lcVars, svVars>>

\* The socket has been idle for 10 seconds.
LkTimeout ==
    /\ call.phase \in {"sent", "body"}
    /\ call' = onTimeout(call)
    /\ net' = [net EXCEPT !.abortError = (call.phase = "sent")]
    /\ lkLog' = Append(lkLog, <<"timeout">>)
    /\ UNCHANGED <<fnVars, lcVars, svVars>>

\* The 'error' event of the request destroyed by the timeout handler.
LkAbortError ==
    /\ net.abortError
    /\ call' = onError(call, s_socketHangUp)
    /\ net' = [net EXCEPT !.abortError = FALSE]
    /\ lkLog' = Append(lkLog, <<"error", s_socketHangUp>>)
    /\ UNCHANGED <<fnVars, lcVars, svVars>>

\* The peer closes the connection in the middle of the body.
LkPrematureClose ==
    /\ call.phase = "body"
    /\ net.sent < Len(net.body)
    /\ call' = onPrematureClose(call)
    /\ UNCHANGED <<net, lkLog, fnVars, lcVars, svVars>>

LookupNext ==
    \/ LkStart \/ LkResponse \/ LkData \/ LkEnd \/ LkError \/ LkTimeout
    \/ LkAbortError \/ LkPrematureClose

SpecLookup == LookupInit /\ [][LookupNext]_vars

-----------------------------------------------------------------------------
(* Specification of the service: start(), stop() and the listener loop     *)
(* with the classifier, the extractor, the lookup and the sends it awaits. *)
(* One listener at a time: start() is taken when no earlier run of the     *)
(* loop is still alive.                                                    *)

MaxMessages == 2

AgentInboxId == <<"a","b">>
OtherInboxId == <<"c","d">>
\* inboxState[0].identifiers[0].identifier of a sender
addressOf(inboxId) == <<"0","x">> \o inboxId

ConversationIds == { <<"c","1">>, <<"c","2">> }

InboundMessage(sender, typeId, content, conversationId) ==
    [senderInboxId |-> sender, typeId |-> typeId, content |-> content,
     conversationId |-> conversationId]

InboundMessages ==
    { InboundMessage(OtherInboxId, Str(s_text), Str(<<"@","a","b">>), <<"c","1">>),
      InboundMessage(OtherInboxId, Str(s_text), Str(<<"h","i"," ","@","a","b">>), <<"c","2">>),
      InboundMessage(<<"A","b">>, Str(s_text), Str(<<"@","a","b">>), <<"c","1">>),
      InboundMessage(OtherInboxId, Str(<<"r","e","a","c","t","i","o","n">>),
                     Str(<<"@","a","b">>), <<"c","1">>),
      InboundMessage(OtherInboxId, Str(s_text), Str(<<>>), <<"c","1">>),
      InboundMessage(OtherInboxId, Str(s_text), Undef, <<"c","2">>) }

SvClassifierAnswers ==
    { SvcText(<<" ","E","n","d","p","o","i","n","t","2","\n">>),
      SvcText(<<"n","o">>), SvcThrow }
SvExtractorAnswers ==
    { SvcText(<<"@","a","b">>), SvcText(<<LoneSurrogate>>), SvcThrow }
SvBodies == { b_null, b_profile, b_html }

Init ==
    /\ FnIdle
    /\ LkIdle
    /\ SvIdle
    /\ LcIdle

\* start() up to Client.create, which may throw.
ServiceStartCreate ==
    /\ ~isRunning
    /\ ~starting
    /\ listener.pc \in {"none", "returned", "rejected", "noStream"}
    /\ \E created \in BOOLEAN :
          IF created
          THEN client' = "client" /\ starting' = TRUE
          ELSE UNCHANGED <<client, starting>>
    /\ UNCHANGED <<isRunning, listener, store, taken, atTake, calls, sent,
                   fnVars, lcVars, lkVars>>

\* start() from conversations.sync, which may throw, to the call of
\* startMessageListener.
ServiceStartSync ==
    /\ starting
    /\ starting' = FALSE
    /\ \E synced \in BOOLEAN :
          IF synced
          THEN /\ isRunning' = TRUE
               /\ listener' = [IdleListener EXCEPT !.pc = "streamAllMessages"]
          ELSE UNCHANGED <<isRunning, listener>>
    /\ UNCHANGED <<client, store, taken, atTake, calls, sent, fnVars, lcVars, lkVars>>

\* stop()
ServiceStop ==
    /\ isRunning' = FALSE
    /\ UNCHANGED <<client, starting, listener, store, taken, atTake, calls,
                   sent, fnVars, lcVars, lkVars>>

\* await this.client.conversations.streamAllMessages()
ListenerOpenStream ==
    /\ listener.pc = "streamAllMessages"
    /\ \E opened \in BOOLEAN :
          listener' = [listener EXCEPT !.pc = IF opened THEN "waiting"
                                                         ELSE "noStream"]
    /\ UNCHANGED <<client, isRunning, starting, store, taken, atTake, calls,
                   sent, fnVars, lcVars, lkVars>>

\* The fate of the message in hand is settled.
settle(log, fate) == [log EXCEPT ![Len(log)].fate = fate]

\* The loop goes back to the stream: continue, or the end of the body.
Waiting == [IdleListener EXCEPT !.pc = "waiting"]

\* An exception leaves the loop: the promise of startMessageListener is
\* rejected and its frame is gone.
ListenerRejected == [IdleListener EXCEPT !.pc = "rejected"]

\* A slip: the next message is handed over while the lookup for the
\* previous one is still awaited.
ListenerTake_early ==
    /\ listener.pc \in {"waiting", "makeApiCall"}
    /\ Len(taken) < MaxMessages
    /\ isRunning
    /\ \E message \in InboundMessages :
          /\ taken' = Append(taken, [message |-> message, fate |-> "handling"])
          /\ listener' = [listener EXCEPT !.pc = "getConversationById",
                                          !.message = message]
    /\ atTake' = [calls |-> calls, store |-> store]
    /\ UNCHANGED <<client, isRunning, starting, store, calls, sent, fnVars, lcVars,
                   lkVars>>

\* The stream yields a message: the break on isRunning and the first guard.
ListenerTake ==
    /\ listener.pc = "waiting"
    /\ Len(taken) < MaxMessages
    /\ \E message \in InboundMessages :
          IF ~isRunning
          THEN /\ listener' = [IdleListener EXCEPT !.pc = "returned"]
               /\ UNCHANGED <<taken, atTake>>
          ELSE /\ atTake' = [calls |-> calls, store |-> store]
               /\ IF isOwnOrNotText(message, AgentInboxId)
                  THEN /\ taken' = Append(taken, [message |-> message,
                                                  fate |-> "filtered"])
                       /\ listener' = Waiting
                  ELSE /\ taken' = Append(taken, [message |-> message,
                                                  fate |-> "handling"])
                       /\ listener' = [listener EXCEPT
                                          !.pc = "getConversationById",
                                          !.message = message]
    /\ UNCHANGED <<client, isRunning, starting, store, calls, sent, fnVars, lcVars,
                   lkVars>>

\* await getConversationById: the conversation, undefined, or an exception.
ListenerGetConversation ==
    /\ listener.pc = "getConversationById"
    /\ \E outcome \in {"conversation", "undefined", "throws"} :
          CASE outcome = "conversation" ->
                  /\ listener' = [listener EXCEPT !.pc = "inboxStateFromInboxIds"]
                  /\ UNCHANGED taken
            [] outcome = "undefined" ->
                  /\ listener' = Waiting
                  /\ taken' = settle(taken, "noConversation")
            [] outcome = "throws" ->
                  /\ listener' = ListenerRejected
                  /\ taken' = settle(taken, "thrown")
    /\ UNCHANGED <<client, isRunning, starting, store, atTake, calls, sent,
                   fnVars, lcVars, lkVars>>

\* await inboxStateFromInboxIds and inboxState[0].identifiers[0].identifier,
\* then the guard on the content and the incoming message of the store.
ListenerInboxState ==
    /\ listener.pc = "inboxStateFromInboxIds"
    /\ \E outcome \in {"identifiers", "empty", "throws"} :
          IF outcome = "identifiers"
          THEN LET message == listener.message
                   addressFromInboxId == addressOf(message.senderInboxId)
                   messageContent == messageContentOf(message)
               IN  IF messageContent = <<>>
                   THEN /\ listener' = Waiting
                        /\ taken' = settle(taken, "noContent")
                        /\ UNCHANGED store
                   ELSE /\ UNCHANGED taken
                        /\ store' = addMessage(store,
                                       incomingMessage(addressFromInboxId,
                                           messageContent, message.conversationId),
                                       message.conversationId, addressFromInboxId, now)
                        /\ listener' = [listener EXCEPT
                               !.pc = "decideApiEndpoint",
                               !.addressFromInboxId = addressFromInboxId,
                               !.messageContent = messageContent]
          ELSE /\ listener' = ListenerRejected
               /\ taken' = settle(taken, "thrown")
               /\ UNCHANGED store
    /\ UNCHANGED <<client, isRunning, starting, atTake, calls, sent, fnVars, lcVars,
                   lkVars>>

\* await decideApiEndpoint(messageContent, this.model)
ListenerDecide ==
    /\ listener.pc = "decideApiEndpoint"
    /\ calls' = [calls EXCEPT !.classifier = @ + 1]
    /\ \E svc \in SvClassifierAnswers :
          LET r == decideApiEndpoint(listener.messageContent, svc) IN
          listener' = IF Threw(r) THEN [listener EXCEPT !.pc = "catch"]
                      ELSE [listener EXCEPT !.pc = "extractAuthorHandle",
                                            !.selectedEndpoint = r[2]]
    /\ UNCHANGED <<client, isRunning, starting, store, taken, atTake, sent,
                   fnVars, lcVars, lkVars>>

\* await extractAuthorHandle(messageContent, this.model) and the call of
\* makeApiCall, whose promise may be rejected at once.
ListenerExtract ==
    /\ listener.pc = "extractAuthorHandle"
    /\ \E svc \in SvExtractorAnswers :
          LET r == extractAuthorHandle(listener.messageContent, svc) IN
          IF Threw(r)
          THEN /\ listener' = [listener EXCEPT !.pc = "catch"]
               /\ calls' = [calls EXCEPT !.extractor = @ + 1]
               /\ UNCHANGED call
          ELSE LET c == makeApiCall(listener.selectedEndpoint, r[2]) IN
               /\ call' = c
               /\ calls' = [calls EXCEPT !.extractor = @ + 1, !.lookup = @ + 1]
               /\ listener' = [listener EXCEPT
                      !.pc = IF c.promise = Rejected THEN "catch"
                             ELSE "makeApiCall",
                      !.authorHandle = r[2]]
    /\ net' = IdleNet
    /\ lkLog' = <<>>
    /\ UNCHANGED <<client, isRunning, starting, store, taken, atTake, sent,
                   fnVars, lcVars>>

\* The events of the transport of the call the listener awaits.
ListenerLookupResponse ==
    /\ listener.pc = "makeApiCall"
    /\ call.phase = "sent"
    /\ \E b \in SvBodies : net' = [net EXCEPT !.body = b]
    /\ call' = onResponse(call)
    /\ UNCHANGED <<lkLog, fnVars, lcVars, svVars>>

ListenerLookupData ==
    /\ listener.pc = "makeApiCall"
    /\ call.phase = "body"
    /\ net.sent < Len(net.body)
    /\ call' = onData(call, SubSeq(net.body, net.sent + 1, Len(net.body)))
    /\ net' = [net EXCEPT !.sent = Len(net.body)]
    /\ UNCHANGED <<lkLog, fnVars, lcVars, svVars>>

ListenerLookupEnd ==
    /\ listener.pc = "makeApiCall"
    /\ call.phase = "body"
    /\ net.sent = Len(net.body)
    /\ call' = onEnd(call)
    /\ lkLog' = Append(lkLog, <<"end">>)
    /\ UNCHANGED <<net, fnVars, lcVars, svVars>>

ListenerLookupError ==
    /\ listener.pc = "makeApiCall"
    /\ call.phase \in {"sent", "body"}
    /\ call' = onError(call, s_econnreset)
    /\ lkLog' = Append(lkLog, <<"error", s_econnreset>>)
    /\ UNCHANGED <<net, fnVars, lcVars, svVars>>

ListenerLookupTimeout ==
    /\ listener.pc = "makeApiCall"
    /\ call.phase \in {"sent", "body"}
    /\ call' = onTimeout(call)
    /\ net' = [net EXCEPT !.abortError = (call.phase = "sent")]
    /\ lkLog' = Append(lkLog, <<"timeout">>)
    /\ UNCHANGED <<fnVars, lcVars, svVars>>

ListenerLookupAbortError ==
    /\ listener.pc \in {"makeApiCall", "send", "catch"}
    /\ net.abortError
    /\ call' = onError(call, s_socketHangUp)
    /\ net' = [net EXCEPT !.abortError = FALSE]
    /\ lkLog' = Append(lkLog, <<"error", s_socketHangUp>>)
    /\ UNCHANGED <<fnVars, lcVars, svVars>>

ListenerLookupPrematureClose ==
    /\ listener.pc = "makeApiCall"
    /\ call.phase = "body"
    /\ net.sent < Len(net.body)
    /\ call' = onPrematureClose(call)
    /\ UNCHANGED <<net, lkLog, fnVars, lcVars, svVars>>

\* The promise of makeApiCall is resolved: the reply text is chosen.
ListenerFormat ==
    /\ listener.pc = "makeApiCall"
    /\ call.promise[1] = "resolved"
    /\ listener' = [listener EXCEPT
           !.pc = "send",
           !.responseMessage =
               responseMessageOf(listener.selectedEndpoint, call.promise[2])]
    /\ UNCHANGED <<client, isRunning, starting, store, taken, atTake, calls,
                   sent, fnVars, lcVars, lkVars>>


\* A mutant of ListenerSend: recording the reply throws after the send.
ListenerSend_thenThrows ==
    /\ listener.pc = "send"
    /\ calls' = [calls EXCEPT !.send = @ + 1]
    /\ \E delivered \in BOOLEAN :
          IF delivered
          THEN /\ sent' = Append(sent,
                      [conversationId |-> listener.message.conversationId,
                       content |-> listener.responseMessage])
               /\ store' = addMessage(store,
                      outgoingMessage(listener.responseMessage,
                                      listener.message.conversationId),
                      listener.message.conversationId,
                      listener.addressFromInboxId, now)
               /\ listener' = [listener EXCEPT !.pc = "catch"]
               /\ UNCHANGED <<taken, lkVars>>
          ELSE /\ listener' = [listener EXCEPT !.pc = "catch"]
               /\ UNCHANGED <<sent, store, taken, lkVars>>
    /\ UNCHANGED <<client, isRunning, starting, atTake, fnVars, lcVars>>

\* await conversation.send(responseMessage) and the outgoing message of the
\* store; an exception of send goes to the catch block.
ListenerSend ==
    /\ listener.pc = "send"
    /\ calls' = [calls EXCEPT !.send = @ + 1]
    /\ \E delivered \in BOOLEAN :
          IF delivered
          THEN /\ sent' = Append(sent,
                      [conversationId |-> listener.message.conversationId,
                       content |-> listener.responseMessage])
               /\ store' = addMessage(store,
                      outgoingMessage(listener.responseMessage,
                                      listener.message.conversationId),
                      listener.message.conversationId,
                      listener.addressFromInboxId, now)
               /\ taken' = settle(taken, "replied")
               /\ listener' = Waiting
               /\ call' = IdleCall /\ net' = IdleNet /\ lkLog' = <<>>
          ELSE /\ listener' = [listener EXCEPT !.pc = "catch"]
               /\ UNCHANGED <<sent, store, taken, lkVars>>
    /\ UNCHANGED <<client, isRunning, starting, atTake, fnVars, lcVars>>

\* The catch block: await conversation.send of the error envelope, outside
\* any try.
ListenerCatch ==
    /\ listener.pc = "catch"
    /\ calls' = [calls EXCEPT !.errorReply = @ + 1]
    /\ \E delivered \in BOOLEAN :
          IF delivered
          THEN /\ sent' = Append(sent,
                      [conversationId |-> listener.message.conversationId,
                       content |-> errorEnvelope])
               /\ taken' = settle(taken, "replied")
               /\ listener' = Waiting
          ELSE /\ listener' = ListenerRejected
               /\ taken' = settle(taken, "thrown")
               /\ UNCHANGED sent
    /\ call' = IdleCall /\ net' = IdleNet /\ lkLog' = <<>>
    /\ UNCHANGED <<client, isRunning, starting, store, atTake, fnVars, lcVars>>

Next ==
    \/ ServiceStartCreate \/ ServiceStartSync \/ ServiceStop
    \/ ListenerOpenStream \/ ListenerTake \/ ListenerGetConversation
    \/ ListenerInboxState \/ ListenerDecide \/ ListenerExtract
    \/ ListenerLookupResponse \/ ListenerLookupData \/ ListenerLookupEnd
    \/ ListenerLookupError \/ ListenerLookupTimeout
    \/ ListenerLookupAbortError \/ ListenerLookupPrematureClose
    \/ ListenerFormat \/ ListenerSend \/ ListenerCatch

Spec == Init /\ [][Next]_vars

-----------------------------------------------------------------------------
(* Specification of the service with every call of start() and every run   *)
(* of the listener loop: calls of start() overlap each other and stop(),   *)
(* and each call that gets through starts a run of startMessageListener    *)
(* with a stream of its own.  The stages of the try block, which touch     *)
(* nothing shared, are one step.                                           *)

MaxArrivals == 2
RunIds == {1, 2}

FeedMessages ==
    { InboundMessage(OtherInboxId, Str(s_text), Str(<<"@","a","b">>), <<"c","1">>),
      InboundMessage(OtherInboxId, Str(s_text), Str(<<>>), <<"c","1">>) }

\* A run before its stream is open: next is the place in the feed of the
\* message its stream yields next, msg the place of the message in hand.
NewRun ==
    [pc |-> "streamAllMessages", next |-> 0, msg |-> 0,
     addressFromInboxId |-> <<>>, messageContent |-> <<>>,
     responseMessage |-> <<>>]

remove(s, i) == SubSeq(s, 1, i - 1) \o SubSeq(s, i + 1, Len(s))

\* The run is back at the stream, or has ended.
backTo(run, pc) ==
    [NewRun EXCEPT !.pc = pc, !.next = run.next]

\* A message arrives on the network.
Arrive ==
    /\ Len(feed) < MaxArrivals
    /\ \E message \in FeedMessages : feed' = Append(feed, message)
    /\ UNCHANGED <<starts, runs, takes, stopMark, now, fnVars, lkVars, svVars>>

\* start() is called: it returns at once when the service is running.
ServiceStart ==
    /\ Len(starts) + Len(runs) < Cardinality(RunIds)
    /\ starts' = IF isRunning THEN starts ELSE Append(starts, "Client.create")
    /\ stopMark' = [stopMark EXCEPT !.open = FALSE]
    /\ UNCHANGED <<feed, runs, takes, now, fnVars, lkVars, svVars>>

\* await Client.create(...) of a call of start()
ServiceCreate(i) ==
    /\ starts[i] = "Client.create"
    /\ \E created \in BOOLEAN :
          IF created
          THEN /\ client' = "client"
               /\ starts' = [starts EXCEPT ![i] = "conversations.sync"]
          ELSE /\ starts' = remove(starts, i)
               /\ UNCHANGED client
    /\ UNCHANGED <<isRunning, starting, listener, store, taken, atTake, calls,
                   sent, feed, runs, takes, stopMark, now, fnVars, lkVars>>

\* await this.client.conversations.sync(), then isRunning = true and the
\* call of startMessageListener up to its first await.
ServiceSync(i) ==
    /\ starts[i] = "conversations.sync"
    /\ starts' = remove(starts, i)
    /\ \E synced \in BOOLEAN :
          IF synced
          THEN /\ isRunning' = TRUE
               /\ runs' = Append(runs, NewRun)
          ELSE UNCHANGED <<isRunning, runs>>
    /\ UNCHANGED <<client, starting, listener, store, taken, atTake, calls,
                   sent, feed, takes, stopMark, now, fnVars, lkVars>>

\* A mutant of ServiceStopped: stop() drops the client as well.
\* stop() is called.  The mark keeps the first stop() since the last call
\* of start().
ServiceStopped ==
    /\ isRunning' = FALSE
    /\ stopMark' = IF stopMark.open THEN stopMark
                   ELSE [open |-> TRUE, feed |-> Len(feed)]
    /\ UNCHANGED <<client, starting, listener, store, taken, atTake, calls,
                   sent, feed, starts, runs, takes, now, fnVars, lkVars>>

\* await streamAllMessages(): the stream yields the messages that arrive
\* from now on.
RunOpenStream(r) ==
    /\ runs[r].pc = "streamAllMessages"
    /\ \E opened \in BOOLEAN :
          runs' = [runs EXCEPT ![r] =
                      IF opened THEN [@ EXCEPT !.pc = "waiting",
                                               !.next = Len(feed) + 1]
                      ELSE [@ EXCEPT !.pc = "noStream"]]
    /\ UNCHANGED <<feed, starts, takes, stopMark, now, fnVars, lkVars, svVars>>

\* The stream of the run yields its next message: the break on isRunning
\* and the first guard.
RunTake(r) ==
    /\ runs[r].pc = "waiting"
    /\ runs[r].next <= Len(feed)
    /\ LET i == runs[r].next
           run == [runs[r] EXCEPT !.next = i + 1]
       IN  IF ~isRunning
           THEN /\ runs' = [runs EXCEPT ![r] = backTo(run, "returned")]
                /\ UNCHANGED takes
           ELSE IF isOwnOrNotText(feed[i], AgentInboxId)
           THEN /\ runs' = [runs EXCEPT ![r] = run]
                /\ UNCHANGED takes
           ELSE /\ runs' = [runs EXCEPT ![r] =
                               [run EXCEPT !.pc = "getConversationById",
                                           !.msg = i]]
                /\ takes' = Append(takes, [run |-> r, msg |-> i])
    /\ UNCHANGED <<feed, starts, stopMark, now, fnVars, lkVars, svVars>>

RunGetConversation(r) ==
    /\ runs[r].pc = "getConversationById"
    /\ \E outcome \in {"conversation", "undefined", "throws"} :
          runs' = [runs EXCEPT ![r] =
              CASE outcome = "conversation" ->
                      [@ EXCEPT !.pc = "inboxStateFromInboxIds"]
                [] outcome = "undefined" -> backTo(@, "waiting")
                [] outcome = "throws" -> backTo(@, "rejected")]
    /\ UNCHANGED <<feed, starts, takes, stopMark, now, fnVars, lkVars, svVars>>

RunInboxState(r) ==
    /\ runs[r].pc = "inboxStateFromInboxIds"
    /\ \E outcome \in {"identifiers", "throws"} :
          IF outcome = "identifiers"
          THEN LET message == feed[runs[r].msg]
                   addressFromInboxId == addressOf(message.senderInboxId)
                   messageContent == messageContentOf(message)
               IN  IF messageContent = <<>>
                   THEN /\ runs' = [runs EXCEPT ![r] = backTo(@, "waiting")]
                        /\ UNCHANGED store
                   ELSE /\ store' = addMessage(store,
                                       incomingMessage(addressFromInboxId,
                                           messageContent, message.conversationId),
                                       message.conversationId, addressFromInboxId, now)
                        /\ runs' = [runs EXCEPT ![r] = [@ EXCEPT
                               !.pc = "try",
                               !.addressFromInboxId = addressFromInboxId,
                               !.messageContent = messageContent]]
          ELSE /\ runs' = [runs EXCEPT ![r] = backTo(@, "rejected")]
               /\ UNCHANGED store
    /\ UNCHANGED <<client, isRunning, starting, listener, taken, atTake, calls,
                   sent, feed, starts, takes, stopMark, now, fnVars, lkVars>>

\* The results a lookup can end with.
LookupResults(endpoint, authorHandle) ==
    LET c == makeApiCall(endpoint, authorHandle) IN
    IF c.promise = Rejected THEN {Rejected}
    ELSE { onEnd(onData(onResponse(c), b_profile)).promise }

\* The try block up to the choice of the reply text: decideApiEndpoint,
\* extractAuthorHandle and makeApiCall, awaited one after the other.
RunTry(r) ==
    /\ runs[r].pc = "try"
    /\ \E svc1 \in {SvcThrow}, svc2 \in {SvcText(<<"@","a","b">>),
                                         SvcText(<<LoneSurrogate>>)} :
          LET selectedEndpoint ==
                  decideApiEndpoint(runs[r].messageContent, svc1)[2]
              authorHandle == extractAuthorHandle(runs[r].messageContent, svc2)[2]
          IN  \E result \in LookupResults(selectedEndpoint, authorHandle) :
                 runs' = [runs EXCEPT ![r] =
                     IF result = Rejected THEN [@ EXCEPT !.pc = "catch"]
                     ELSE [@ EXCEPT !.pc = "send",
                              !.responseMessage =
                                  responseMessageOf(selectedEndpoint, result[2])]]
    /\ UNCHANGED <<feed, starts, takes, stopMark, now, fnVars, lkVars, svVars>>

\* What conversation.send has delivered, with the run and the message.
delivered(run, r, conversationId, content) ==
    [conversationId |-> conversationId, content |-> content, run |-> r,
     msg |-> run.msg]

RunSend(r) ==
    /\ runs[r].pc = "send"
    /\ LET run == runs[r]
           conversationId == feed[run.msg].conversationId
       IN  \E ok \in BOOLEAN :
              IF ok
              THEN /\ sent' = Append(sent, delivered(run, r, conversationId,
                                                     run.responseMessage))
                   /\ store' = addMessage(store,
                          outgoingMessage(run.responseMessage, conversationId),
                          conversationId, run.addressFromInboxId, now)
                   /\ runs' = [runs EXCEPT ![r] = backTo(@, "waiting")]
              ELSE /\ runs' = [runs EXCEPT ![r] = [@ EXCEPT !.pc = "catch"]]
                   /\ UNCHANGED <<sent, store>>
    /\ UNCHANGED <<client, isRunning, starting, listener, taken, atTake, calls,
                   feed, starts, takes, stopMark, now, fnVars, lkVars>>

RunCatch(r) ==
    /\ runs[r].pc = "catch"
    /\ LET run == runs[r]
           conversationId == feed[run.msg].conversationId
       IN  \E ok \in BOOLEAN :
              IF ok
              THEN /\ sent' = Append(sent, delivered(run, r, conversationId,
                                                     errorEnvelope))
                   /\ runs' = [runs EXCEPT ![r] = backTo(@, "waiting")]
              ELSE /\ runs' = [runs EXCEPT ![r] = backTo(@, "rejected")]
                   /\ UNCHANGED sent
    /\ UNCHANGED <<client, isRunning, starting, listener, store, taken, atTake,
                   calls, feed, starts, takes, stopMark, now, fnVars, lkVars>>

ServiceNext ==
    \/ Arrive \/ ServiceStart \/ ServiceStopped
    \/ \E i \in DOMAIN starts : ServiceCreate(i) \/ ServiceSync(i)
    \/ \E r \in DOMAIN runs :
          \/ RunOpenStream(r) \/ RunTake(r) \/ RunGetConversation(r)
          \/ RunInboxState(r) \/ RunTry(r) \/ RunSend(r) \/ RunCatch(r)

SpecService == Init /\ [][ServiceNext]_vars

-----------------------------------------------------------------------------
(* Specification of the calls of start() and stop() and of the status: the *)
(* service as in SpecService, with a feed of messages that have no text,   *)
(* which every run takes and drops at the test of the content.             *)

ArriveNoContent ==
    /\ Len(feed) < MaxArrivals
    /\ feed' = Append(feed, InboundMessage(OtherInboxId, Str(s_text),
                                           Str(<<>>), <<"c","1">>))
    /\ UNCHANGED <<starts, runs, takes, stopMark, now, fnVars, lkVars, svVars>>

LifecycleNext ==
    \/ ArriveNoContent \/ ServiceStart \/ ServiceStopped
    \/ \E i \in DOMAIN starts : ServiceCreate(i) \/ ServiceSync(i)
    \/ \E r \in DOMAIN runs :
          \/ RunOpenStream(r) \/ RunTake(r) \/ RunGetConversation(r)
          \/ RunInboxState(r)

SpecLifecycle == Init /\ [][LifecycleNext]_vars

-----------------------------------------------------------------------------
(* Specification of the message store and the two API handlers on it: the  *)
(* calls of addMessage (made by the listener), POST send and GET           *)
(* conversations, at the dates the clock gives them.  Two calls within one *)
(* millisecond get the same date.  fn, fnArg and fnOut keep the last call. *)
(* start() is called once, which gives sendMessage its client.  In the     *)
(* other specifications the clock stands still.                            *)

MaxNow == 2
MaxStored == 2

s_hi == <<"h","i">>
StoreContents == { s_hi }

stored(st) == LET n[i \in 0..Len(st)] ==
                      IF i = 0 THEN 0 ELSE n[i - 1] + Len(st[i].messages)
              IN  n[Len(st)]

\* new Date(): the clock has gone on since the last call, or has not.
Dates == { d \in {now, now + 1} : d <= MaxNow }

\* messageStore.addMessage as the listener calls it
AddMessage ==
    /\ stored(store) < MaxStored
    /\ \E conversationId \in ConversationIds, date \in Dates,
          message \in
             { incomingMessage(addressOf(OtherInboxId), s_hi, c) : c \in ConversationIds }
             \cup { outgoingMessage(s_hi, c) : c \in ConversationIds } :
          /\ message.conversationId = conversationId
          /\ now' = date
          /\ store' = addMessage(store, message, conversationId,
                                 addressOf(OtherInboxId), date)
          /\ fn' = "addMessage"
          /\ fnArg' = [conversationId |-> conversationId, message |-> message]
          /\ fnOut' = None
    /\ UNCHANGED <<fnSvc, lkVars, client, isRunning, starting, listener, taken,
                   atTake, calls, sent, feed, starts, runs, takes, stopMark>>

\* The errors of xmtpService.sendMessage; SendError is what
\* conversation.send or getConversationById has thrown.
e_notInitialized == "XMTP client is not initialized"
e_notFound == "Conversation not found"
SendError == "SendError"
NoError == "none"

\* notifyListeners is called by markOutgoingMessage for a conversation of
\* the store only.
marked(st, conversationId) == hasConversation(st, conversationId)

\* A mutant of sendMessage: the store is marked before the send.
sendMessage_marksFirst(st, cl, conversationId, content, conversation, delivered_, date) ==
    IF cl = "null"
    THEN [store |-> st, completion |-> Throw, error |-> e_notInitialized,
          notified |-> FALSE]
    ELSE IF conversation = "throws"
    THEN [store |-> st, completion |-> Throw, error |-> SendError,
          notified |-> FALSE]
    ELSE IF conversation # "conversation"
    THEN [store |-> st, completion |-> Throw, error |-> e_notFound,
          notified |-> FALSE]
    ELSE [store |-> markOutgoingMessage(st, conversationId, content, date),
          completion |-> IF delivered_ THEN Return(Undef) ELSE Throw,
          error |-> IF delivered_ THEN NoError ELSE SendError,
          notified |-> marked(st, conversationId)]

\* The outcomes of xmtpService.sendMessage
sendMessage(st, cl, conversationId, content, conversation, delivered_, date) ==
    IF cl = "null"
    THEN [store |-> st, completion |-> Throw, error |-> e_notInitialized,
          notified |-> FALSE]
    ELSE IF conversation = "throws"
    THEN [store |-> st, completion |-> Throw, error |-> SendError,
          notified |-> FALSE]
    ELSE IF conversation # "conversation"
    THEN [store |-> st, completion |-> Throw, error |-> e_notFound,
          notified |-> FALSE]
    ELSE IF ~delivered_
    THEN [store |-> st, completion |-> Throw, error |-> SendError,
          notified |-> FALSE]
    ELSE [store |-> markOutgoingMessage(st, conversationId, content, date),
          completion |-> Return(Undef), error |-> NoError,
          notified |-> marked(st, conversationId)]

\* The handler of POST send: 400 for a missing field, 200 when sendMessage
\* returns, 500 when it throws; the error caught is logged.
sendHandler(st, cl, conversationId, content, conversation, delivered_, date) ==
    IF conversationId = <<>> \/ content = <<>>
    THEN [store |-> st, status |-> 400, error |-> NoError, notified |-> FALSE]
    ELSE LET r == sendMessage(st, cl, conversationId, content, conversation,
                              delivered_, date)
         IN  [store |-> r.store,
              status |-> IF r.completion = Throw THEN 500 ELSE 200,
              error |-> r.error, notified |-> r.notified]

PostSend ==
    /\ stored(store) < MaxStored
    /\ \E conversationId \in ConversationIds \cup {<<>>},
          content \in StoreContents \cup {<<>>},
          conversation \in {"conversation", "undefined", "throws"},
          delivered_ \in BOOLEAN, date \in Dates :
          LET r == sendHandler(store, client, conversationId, content,
                               conversation, delivered_, date)
          IN  /\ now' = date
              /\ store' = r.store
              /\ fn' = "send"
              /\ fnArg' = [conversationId |-> conversationId,
                           content |-> content, client |-> conversation,
                           delivered |-> delivered_]
              /\ fnOut' = [status |-> r.status, error |-> r.error,
                           notified |-> r.notified]
    /\ UNCHANGED <<fnSvc, lkVars, client, isRunning, starting, listener, taken,
                   atTake, calls, sent, feed, starts, runs, takes, stopMark>>

\* The handler of GET conversations
GetConversations ==
    /\ fn' = "conversations"
    /\ fnArg' = None
    /\ fnOut' = [status |-> 200, body |-> getConversations(store)]
    /\ UNCHANGED <<fnSvc, lkVars, svVars, feed, starts, runs, takes, stopMark,
                   now>>

StoreNext ==
    \/ AddMessage \/ PostSend \/ GetConversations
    \/ (starts = <<>> /\ runs = <<>> /\ ServiceStart)
    \/ \E i \in DOMAIN starts : ServiceCreate(i) \/ ServiceSync(i)

SpecStore == Init /\ [][StoreNext]_vars

-----------------------------------------------------------------------------
(* Specification of the formatters called again: a formatter is applied to *)
(* a payload, time passes and the formatters are applied to other          *)
(* payloads, then the first formatter is applied to the first payload      *)
(* again.  fnOut keeps the two results, fnSvc the number of calls between. *)

MaxBetween == 2

Formatters == {"formatEndpoint1Response", "formatEndpoint2Response",
               "formatEndpoint3Response"}

formatted(name, data) ==
    CASE name = "formatEndpoint1Response" -> formatEndpoint1Response(data)
      [] name = "formatEndpoint2Response" -> formatEndpoint2Response(data)
      [] name = "formatEndpoint3Response" -> formatEndpoint3Response(data)

FormatFirst ==
    /\ fn = "none"
    /\ \E name \in Formatters :
          /\ fn' = name
          /\ fnOut' = [first |-> formatted(name, fnArg), second |-> None]
    /\ fnSvc' = 0
    /\ UNCHANGED <<fnArg, lkVars, svVars, feed, starts, runs, takes, stopMark,
                   now>>

\* The clock goes on.
FormatLater ==
    /\ fn \in Formatters
    /\ fnOut.second = None
    /\ now < MaxNow
    /\ now' = now + 1
    /\ UNCHANGED <<fnVars, lkVars, svVars, feed, starts, runs, takes, stopMark>>

\* A call of a formatter on another payload, whose result is dropped.
FormatOther ==
    /\ fn \in Formatters
    /\ fnOut.second = None
    /\ fnSvc < MaxBetween
    /\ \E name \in Formatters, data \in OddPayloads :
          Returned(formatted(name, data))
    /\ fnSvc' = fnSvc + 1
    /\ UNCHANGED <<fn, fnArg, fnOut, lkVars, svVars, lcVars>>

FormatAgain ==
    /\ fn \in Formatters
    /\ fnOut.second = None
    /\ fnOut' = [fnOut EXCEPT !.second = formatted(fn, fnArg)]
    /\ UNCHANGED <<fn, fnArg, fnSvc, lkVars, svVars, lcVars>>

SpecFormatAgain ==
    FormatInit /\ [][FormatFirst \/ FormatLater \/ FormatOther \/ FormatAgain]_vars

-----------------------------------------------------------------------------
(* The terminal agent (index.ts): its own classifier, extractor, lookup    *)
(* client and choice of the reply, and the two agents side by side on the  *)
(* same message, the same answers of the completion service and the same   *)
(* events of the transport.                                                *)

\* The try block of decideApiEndpoint of index.ts.
cli_decideTry(userMessage, svc) ==
    IF svc = SvcThrow THEN Throw
    ELSE LET decision == toLowerCase(trim(svc[2])) IN
         IF decision = s_endpoint1 \/ decision = s_endpoint2
                \/ decision = s_endpoint3
         THEN Return(decision)
         ELSE Return(s_endpoint1)

cli_decideApiEndpoint(userMessage, svc) ==
    LET r == cli_decideTry(userMessage, svc) IN
    IF Threw(r) THEN Return(s_endpoint1) ELSE r

RECURSIVE cli_scanWords(_, _)
cli_scanWords(words, userMessage) ==
    IF words = <<>> THEN trim(userMessage)
    ELSE LET word == Head(words) IN
         IF startsWith(word, "@") THEN substringFrom(word, 1)
         ELSE IF matchesHandlePattern(word) THEN word
         ELSE cli_scanWords(Tail(words), userMessage)

\* A mutant of cli_extractTry: the answer is not trimmed.
cli_extractTry_untrimmed(userMessage, svc) ==
    IF svc = SvcThrow THEN Throw
    ELSE Return(replaceFirst(svc[2], "@"))

\* The try block of extractAuthorHandle of index.ts.
cli_extractTry(userMessage, svc) ==
    IF svc = SvcThrow THEN Throw
    ELSE Return(replaceFirst(trim(svc[2]), "@"))

cli_extractAuthorHandle(userMessage, svc) ==
    LET r == cli_extractTry(userMessage, svc) IN
    IF Threw(r)
    THEN Return(cli_scanWords(split(userMessage, " "), userMessage))
    ELSE r

\* The switch of makeApiCall of index.ts on its own API_ENDPOINTS, which
\* are the templates of the web service.
cli_urlFor(endpoint, encoded) ==
    CASE endpoint = s_endpoint1 -> url1_head \o encoded
      [] endpoint = s_endpoint2 -> url2_head \o encoded \o url2_tail
      [] endpoint = s_endpoint3 -> url3_head \o encoded \o url3_tail
      [] OTHER -> url1_head \o encoded

cli_makeApiCall(endpoint, authorHandle) ==
    LET enc == encodeURIComponent(authorHandle) IN
    IF Threw(enc)
    THEN [endpoint |-> endpoint, authorHandle |-> authorHandle, url |-> <<>>,
          phase |-> "failed", data |-> <<>>, destroyed |-> FALSE,
          promise |-> Rejected]
    ELSE [endpoint |-> endpoint, authorHandle |-> authorHandle,
          url |-> cli_urlFor(endpoint, enc[2]),
          phase |-> "sent", data |-> <<>>, destroyed |-> FALSE,
          promise |-> Pending]

\* res.on('end') of index.ts
cli_onEnd(c) ==
    LET parsed == JsonParse(c.data)
        done == [c EXCEPT !.phase = "closed"]
    IN  IF Returned(parsed)
        THEN resolve(done, successResult(c.endpoint, c.authorHandle, parsed[2]))
        ELSE resolve(done, parseFailureResult(c.endpoint, c.authorHandle, c.data))

\* req.on('error') and req.on('timeout') of index.ts
cli_onError(c, message) ==
    resolve([c EXCEPT !.phase = "closed"],
            errorResult(c.endpoint, c.authorHandle, message))

cli_onTimeout(c) ==
    resolve([c EXCEPT !.phase = "closed", !.destroyed = TRUE],
            errorResult(c.endpoint, c.authorHandle, s_timeout))

\* What the transport does with a request: the whole body and 'end', the
\* body cut short, an error, or nothing until the timeout.
Transports ==
    { <<"end", b>> : b \in {b_null, b_profile, b_notFound, b_html} }
    \cup { <<"cut", b_profile>>, <<"error", s_econnreset>>, <<"timeout">> }

\* The call of the web service after the events of the transport.
settled(c, transport) ==
    IF c.promise = Rejected THEN c
    ELSE CASE transport[1] = "end" -> onEnd(onData(onResponse(c), transport[2]))
           [] transport[1] = "cut" ->
                 onPrematureClose(onData(onResponse(c),
                     SubSeq(transport[2], 1, Len(transport[2]) - 1)))
           [] transport[1] = "error" -> onError(c, transport[2])
           [] transport[1] = "timeout" -> onTimeout(c)

cli_settled(c, transport) ==
    IF c.promise = Rejected THEN c
    ELSE CASE transport[1] = "end" ->
                 cli_onEnd(onData(onResponse(c), transport[2]))
           [] transport[1] = "cut" ->
                 onPrematureClose(onData(onResponse(c),
                     SubSeq(transport[2], 1, Len(transport[2]) - 1)))
           [] transport[1] = "error" -> cli_onError(c, transport[2])
           [] transport[1] = "timeout" -> cli_onTimeout(c)

\* The branch the try block of the listener takes on the promise of the
\* lookup: a dedicated formatter, the JSON dump, the catch block, or none
\* while the promise is pending.
branchOf(selectedEndpoint, promise) ==
    IF promise = Rejected THEN "errorReply"
    ELSE IF promise = Pending THEN "await"
    ELSE LET apiResponse == promise[2] IN
         IF Truthy(Get(apiResponse, s_data)) /\ ~Truthy(Get(apiResponse, s_error))
         THEN IF selectedEndpoint = s_endpoint1 THEN "formatEndpoint1Response"
              ELSE IF selectedEndpoint = s_endpoint2 THEN "formatEndpoint2Response"
              ELSE IF selectedEndpoint = s_endpoint3 THEN "formatEndpoint3Response"
              ELSE "JSON.stringify"
         ELSE "JSON.stringify"

\* The same in main of index.ts, which logs the JSON texts of the response
\* and of its data on the way.
cli_branchOf(selectedEndpoint, promise) ==
    IF promise = Rejected THEN "errorReply"
    ELSE IF promise = Pending THEN "await"
    ELSE LET apiResponse == promise[2]
             logged == JsonStringify(apiResponse)
         IN  IF Truthy(Get(apiResponse, s_data))
                    /\ ~Truthy(Get(apiResponse, s_error))
             THEN IF selectedEndpoint = s_endpoint1 THEN "formatEndpoint1Response"
                  ELSE IF selectedEndpoint = s_endpoint2
                       THEN "formatEndpoint2Response"
                  ELSE IF selectedEndpoint = s_endpoint3
                       THEN "formatEndpoint3Response"
                  ELSE "JSON.stringify"
             ELSE "JSON.stringify"

\* The try block of the web service on one message.
pipeline(messageContent, classifier, extractor, transport) ==
    LET selectedEndpoint == decideApiEndpoint(messageContent, classifier)[2]
        authorHandle == extractAuthorHandle(messageContent, extractor)[2]
        c == settled(makeApiCall(selectedEndpoint, authorHandle), transport)
    IN  [selectedEndpoint |-> selectedEndpoint, authorHandle |-> authorHandle,
         url |-> c.url, apiResponse |-> c.promise,
         branch |-> branchOf(selectedEndpoint, c.promise)]

\* The try block of the terminal agent on one message.
cli_pipeline(messageContent, classifier, extractor, transport) ==
    LET selectedEndpoint == cli_decideApiEndpoint(messageContent, classifier)[2]
        authorHandle == cli_extractAuthorHandle(messageContent, extractor)[2]
        c == cli_settled(cli_makeApiCall(selectedEndpoint, authorHandle),
                         transport)
    IN  [selectedEndpoint |-> selectedEndpoint, authorHandle |-> authorHandle,
         url |-> c.url, apiResponse |-> c.promise,
         branch |-> cli_branchOf(selectedEndpoint, c.promise)]

AgentMessages == SampleMessages \cup { <<"@","a","b">>, <<" ","h","i"," ">> }
AgentClassifierAnswers ==
    { SvcText(<<" ">> \o toUpperCase(s_endpoint2) \o <<"\n">>),
      SvcText(s_endpoint3), SvcText(<<"n","o">>), SvcThrow }
AgentExtractorAnswers ==
    { SvcText(<<" ","@","a","b","\n">>), SvcText(<<"a"," ","b">>),
      SvcText(<<LoneSurrogate>>), SvcThrow }

\* One message through both agents.
Pipelines ==
    /\ fn = "none"
    /\ \E messageContent \in AgentMessages,
          classifier \in AgentClassifierAnswers,
          extractor \in AgentExtractorAnswers, transport \in Transports :
          /\ fnArg' = [messageContent |-> messageContent,
                       transport |-> transport]
          /\ fnSvc' = [classifier |-> classifier, extractor |-> extractor]
          /\ fnOut' = [service |-> pipeline(messageContent, classifier,
                                            extractor, transport),
                       agent |-> cli_pipeline(messageContent, classifier,
                                              extractor, transport)]
    /\ fn' = "pipelines"
    /\ UNCHANGED <<lkVars, svVars, lcVars>>

SpecAgents == Init /\ [][Pipelines]_vars

-----------------------------------------------------------------------------
(* C1: decideApiEndpoint always returns (never throws) one of the three     *)
(* identifiers: the trimmed, lower-cased answer of the service when that   *)
(* is one of the three, and endpoint1 when it is not or the call threw.    *)
C1_ClassifierClosed ==
    fn = "decideApiEndpoint" =>
        /\ Returned(fnOut)
        /\ fnOut[2] \in {s_endpoint1, s_endpoint2, s_endpoint3}
        /\ IF fnSvc # SvcThrow /\ toLowerCase(trim(fnSvc[2])) \in ActionIds
           THEN fnOut[2] = toLowerCase(trim(fnSvc[2]))
           ELSE fnOut[2] = s_endpoint1

\* The service answered " ENDPOINT2\n" and endpoint2 was selected.
C1_Witness ==
    /\ fn = "decideApiEndpoint"
    /\ fnSvc = SvcText(<<" ">> \o toUpperCase(s_endpoint2) \o <<"\n">>)
    /\ fnOut = Return(s_endpoint2)

\* Has a word that starts with '@'.
HasAtToken(msg) == \E i \in DOMAIN split(msg, " ") : startsWith(split(msg, " ")[i], "@")
FirstAtToken(msg) ==
    LET ws == split(msg, " ")
        k == CHOOSE i \in DOMAIN ws :
                 startsWith(ws[i], "@") /\ \A j \in 1..(i - 1) : ~startsWith(ws[j], "@")
    IN  ws[k]

(* C2: when the service call fails and the message has a space-delimited   *)
(* token that starts with '@', extractAuthorHandle returns the first such  *)
(* token without its '@'.                                                  *)
C2_FallbackReturnsAtToken ==
    (fn = "extractAuthorHandle" /\ fnSvc = SvcThrow /\ HasAtToken(fnArg)) =>
        fnOut = Return(substringFrom(FirstAtToken(fnArg), 1))

-----------------------------------------------------------------------------
\* d is an object with a property of that name.
HasProp(d, key) == Kind(d) = "obj" /\ \E i \in DOMAIN d[2] : d[2][i][1] = key

Formatters1 == {"formatEndpoint1Response", "cli_formatEndpoint1Response"}

(* C9, as claimed: with a payload (an object) that has no 'result' field   *)
(* each of the three formatters returns the error string of its category.  *)
C9_NoResultGivesErrorString ==
    (fn # "none" /\ Kind(fnArg) = "obj" /\ ~HasProp(fnArg, s_result)) =>
        CASE fn \in Formatters1 -> fnOut = Return(s_errProfile)
          [] fn = "formatEndpoint2Response" -> fnOut = Return(s_errTweets)
          [] fn = "formatEndpoint3Response" -> fnOut = Return(s_errFollowers)

(* C9, amended: with a payload that has no 'result' field no formatter     *)
(* throws; formatEndpoint1Response and formatEndpoint3Response return      *)
(* their error strings; formatEndpoint2Response returns the "no tweets"    *)
(* string, and its error string only when the payload itself is null.      *)
C9_NoResultHandled ==
    (fn # "none" /\ ~HasProp(fnArg, s_result)) =>
        /\ Returned(fnOut)
        /\ CASE fn \in Formatters1 -> fnOut[2] = s_errProfile
             [] fn = "formatEndpoint3Response" -> fnOut[2] = s_errFollowers
             [] fn = "formatEndpoint2Response" ->
                    fnOut[2] = IF IsNullish(fnArg) THEN s_errTweets
                               ELSE s_noTweets

\* formatEndpoint2Response was applied to {"error": "no"}.
C9_Witness ==
    /\ fn = "formatEndpoint2Response"
    /\ fnArg = Obj(<< <<s_error, Str(<<"n","o">>)>> >>)
    /\ fnOut = Return(s_noTweets)

\* The text the claim C10 gives a field: its own value when present, N/A
\* when missing.
shownField(result, key) ==
    IF HasProp(result, key) THEN StringOf(Get(result, key)) ELSE s_NA

shownTags(result) ==
    IF ~HasProp(result, s_tags) THEN s_NA
    ELSE IF IsArray(Get(result, s_tags))
         THEN joinValues(Get(result, s_tags)[2], s_commaSpace)
    ELSE StringOf(Get(result, s_tags))

\* The payload is {result: {...}} and no field of the result is null or
\* an empty string.
IsProfilePayload(d) ==
    /\ HasProp(d, s_result)
    /\ Kind(Get(d, s_result)) = "obj"
    /\ \A i \in DOMAIN Get(d, s_result)[2] :
          Get(d, s_result)[2][i][2] \notin {Null, Str(<<>>)}

(* C10: formatEndpoint1Response prints name, handle, bio, profile image    *)
(* and followers as the payload's value when the field is present and as   *)
(* 'N/A' when it is missing; tags joined with ', ' when an array, as they  *)
(* are when another present value, 'N/A' when missing.  Stated for the     *)
(* payloads whose present fields are neither null nor empty strings.       *)
C10_FieldsShownWhenPresent ==
    (fn \in Formatters1 /\ IsProfilePayload(fnArg)) =>
        LET r == Get(fnArg, s_result) IN
        fnOut =
          IF fn = "formatEndpoint1Response"
          THEN Return(t1_name \o shownField(r, s_name)
                      \o t1_handle \o shownField(r, s_author_handle)
                      \o t1_bio \o shownField(r, s_bio)
                      \o t1_image \o shownField(r, s_profile_image_url)
                      \o t1_followers \o shownField(r, s_followers_count)
                      \o t1_tags \o shownTags(r))
          ELSE Return(shownField(r, s_profile_image_url)
                      \o c1_name \o shownField(r, s_name)
                      \o t1_handle \o shownField(r, s_author_handle)
                      \o t1_bio \o shownField(r, s_bio)
                      \o c1_followers \o shownField(r, s_followers_count)
                      \o t1_tags \o shownTags(r))

-----------------------------------------------------------------------------
\* The outcome that the first settling event of the log decides.
outcomeOf(event, c, body) ==
    CASE event[1] = "end" ->
            IF Returned(JsonParse(body))
            THEN successResult(c.endpoint, c.authorHandle, JsonParse(body)[2])
            ELSE parseFailureResult(c.endpoint, c.authorHandle, body)
      [] event[1] = "error" -> errorResult(c.endpoint, c.authorHandle, event[2])
      [] event[1] = "timeout" -> errorResult(c.endpoint, c.authorHandle, s_timeout)

C4_AlwaysResolved ==
    /\ call.phase \in {"sent", "body", "closed"} => call.promise # Rejected
    /\ (call.phase = "closed" /\ ~net.abortError) => call.promise[1] = "resolved"

-----------------------------------------------------------------------------
(* C5: no failure while a message is handled ends the listener loop: the   *)
(* run of startMessageListener is never left by an exception.              *)
C5_LoopSurvivesFailures == listener.pc # "rejected"

\* The messages the guards of the loop are said to drop: not of type text,
\* sent by the agent itself, or without string content.
GuardedOut(message) ==
    \/ message.typeId # Str(s_text)
    \/ toLowerCase(message.senderInboxId) = toLowerCase(AgentInboxId)
    \/ Kind(message.content) # "str"
    \/ message.content[2] = <<>>

(* C6: whenever the listener is not in the middle of a message, every      *)
(* message it has taken that is text, not the agent's own and of non-empty *)
(* string content has had a reply delivered to its conversation.           *)
C6_EveryValidMessageReplied ==
    listener.pc \in {"waiting", "returned", "rejected"} =>
        \A i \in DOMAIN taken :
            ~GuardedOut(taken[i].message) => taken[i].fate = "replied"

(* C7: from the moment a message that is not text, is the agent's own or   *)
(* has no string content is taken, the classifier, the extractor, the      *)
(* lookup and send are not called and the message store does not change.   *)
C7_GuardedOutHasNoEffect ==
    (taken # <<>> /\ GuardedOut(taken[Len(taken)].message)) =>
        /\ calls = atTake.calls
        /\ store = atTake.store

\* A text message of empty content, taken after a message that was
\* answered, has passed the first guard and both lookups and was dropped by
\* the guard on the content.
C7_Witness ==
    /\ Len(taken) = 2
    /\ taken[1].fate = "replied"
    /\ store # <<>>
    /\ taken[2].message.content = Str(<<>>)
    /\ taken[2].fate = "noContent"
    /\ listener.pc = "waiting"
    /\ calls = atTake.calls /\ calls.send > 0

\* The lookup of the message in hand ended with Success: the body arrived
\* whole and is JSON.
LookupSucceeded ==
    /\ lkLog # <<>>
    /\ lkLog[1] = <<"end">>
    /\ Returned(JsonParse(net.body))

formatterOutput(endpoint, payload) ==
    CASE endpoint = s_endpoint1 -> formatEndpoint1Response(payload)[2]
      [] endpoint = s_endpoint2 -> formatEndpoint2Response(payload)[2]
      [] endpoint = s_endpoint3 -> formatEndpoint3Response(payload)[2]

(* C8: the reply text is the output of the formatter of the selected       *)
(* endpoint exactly when the lookup ended with Success, whatever value the *)
(* body parsed to; otherwise it is the whole result as 2-space JSON.       *)
C8_FormatterExactlyOnSuccess ==
    listener.pc = "send" =>
        listener.responseMessage =
            IF LookupSucceeded
            THEN formatterOutput(listener.selectedEndpoint, JsonParse(net.body)[2])
            ELSE JsonStringify(call.promise[2])

-----------------------------------------------------------------------------
\* A payload {result: [...]} whose items are objects with a string body.
IsTweetPayload(d) ==
    /\ HasProp(d, s_result)
    /\ IsArray(Get(d, s_result))
    /\ \A i \in DOMAIN Get(d, s_result)[2] :
          LET item == Get(d, s_result)[2][i] IN
          Kind(item) = "obj" /\ Kind(Get(item, s_body)) = "str"

\* The body as the claim C11 shows it: cut after 200 characters, with
\* '...', when longer, and unchanged otherwise.
shownBody(body) ==
    IF Len(body) > TruncateAt THEN SubSeq(body, 1, TruncateAt) \o s_ellipsis
    ELSE body

shownTweet(tweet, index) ==
    NumStr(index) \o t2_body \o shownBody(Get(tweet, s_body)[2])
    \o t2_time \o orNA(Get(tweet, s_tweet_create_time))
    \o t2_views \o orNA(Get(tweet, s_view_count))
    \o t2_likes \o orNA(Get(tweet, s_like_count))
    \o t2_replies \o orNA(Get(tweet, s_reply_count))
    \o t2_retweets \o orNA(Get(tweet, s_retweet_count))
    \o t2_category \o orNA(Get(tweet, s_tweet_category))
    \o t2_end

(* C11: formatEndpoint2Response returns the 'no tweets' string for an      *)
(* empty list; for a list of items it returns the header with the count    *)
(* and one numbered block per item in the order of the list, the body cut  *)
(* to 200 characters and '...' when longer and unchanged otherwise.        *)
C11_TweetsRendered ==
    (fn = "formatEndpoint2Response" /\ IsTweetPayload(fnArg)) =>
        LET tweets == Get(fnArg, s_result)[2] IN
        fnOut = IF tweets = <<>> THEN Return(s_noTweets)
                ELSE Return(trim(t2_head \o NumStr(Len(tweets)) \o t_headEnd
                        \o Concat([i \in DOMAIN tweets |->
                                      shownTweet(tweets[i], i)])))

-----------------------------------------------------------------------------
\* The messages whose handling has begun and is not over.
InHand == { i \in DOMAIN taken : taken[i].fate = "handling" }

(* C12: the listener has at most one message in hand, the one it took      *)
(* last: whenever it is at the stream for the next message, the handling   *)
(* of every message taken before is over.                                  *)
C12_OneMessageAtATime ==
    /\ Cardinality(InHand) <= 1
    /\ InHand # {} => InHand = {Len(taken)}
    /\ listener.pc \in {"none", "streamAllMessages", "waiting"} => InHand = {}

\* The second message is in its lookup after the first has been answered.
C12_Witness ==
    /\ Len(taken) = 2
    /\ taken[1].fate = "replied"
    /\ taken[2].fate = "handling"
    /\ listener.pc = "makeApiCall"
    /\ call.phase = "body"

-----------------------------------------------------------------------------
(* C13: within one conversation the replies are sent in the order in which *)
(* the messages they answer were taken from the feed: of two replies to    *)
(* the same conversation, the one sent first answers the message taken     *)
(* first, whatever the calls of start and stop and the arrivals were.      *)

takePos(run, msg) ==
    CHOOSE k \in DOMAIN takes : takes[k] = [run |-> run, msg |-> msg]

C13_RepliesInTakeOrder ==
    \A p, q \in DOMAIN sent :
        (/\ p < q
         /\ sent[p].conversationId = sent[q].conversationId
         /\ sent[p].msg # sent[q].msg) =>
            takePos(sent[p].run, sent[p].msg) < takePos(sent[q].run, sent[q].msg)

-----------------------------------------------------------------------------
(* C14: after stop() and until the next call of start(), a message that    *)
(* arrives is not classified, looked up, replied to or recorded: no run is *)
(* in the try block or its catch with such a message (which is then in the *)
(* store), and no reply answers one.                                       *)

C14_NothingProcessedWhileStopped ==
    stopMark.open =>
        /\ \A r \in DOMAIN runs :
              runs[r].pc \in {"try", "send", "catch"} =>
                  runs[r].msg <= stopMark.feed
        /\ \A p \in DOMAIN sent : sent[p].msg <= stopMark.feed

-----------------------------------------------------------------------------
(* C15: in every step of the store, by addMessage or markOutgoingMessage,  *)
(* every conversation stays where it is with its id and participant, its   *)
(* messages are kept and at most one is appended at the end; a             *)
(* conversation is created exactly by a call of addMessage with an id not  *)
(* in the store; and a conversation that gets a message gets the date of   *)
(* the call as lastActivity.                                               *)

isPrefix(s, u) == Len(s) <= Len(u) /\ SubSeq(u, 1, Len(s)) = s

\* The step is a call on the store or of a handler.
storeCall == store' # store \/ <<fn, fnArg, fnOut>>' # <<fn, fnArg, fnOut>>

C15_StoreStep ==
    /\ \A i \in DOMAIN store :
          /\ i \in DOMAIN store'
          /\ store'[i].id = store[i].id
          /\ store'[i].participantAddress = store[i].participantAddress
          /\ isPrefix(store[i].messages, store'[i].messages)
          /\ Len(store'[i].messages) <= Len(store[i].messages) + 1
          /\ Len(store'[i].messages) = Len(store[i].messages) + 1 =>
                store'[i].lastActivity = now'
          /\ Len(store'[i].messages) = Len(store[i].messages) =>
                store'[i].lastActivity = store[i].lastActivity
    /\ Len(store') <= Len(store) + 1
    /\ Len(store') = Len(store) + 1 <=>
          /\ storeCall
          /\ fn' = "addMessage"
          /\ ~hasConversation(store, fnArg'.conversationId)
    /\ Len(store') = Len(store) + 1 =>
          /\ store'[Len(store')].id = fnArg'.conversationId
          /\ store'[Len(store')].messages = <<fnArg'.message>>
          /\ store'[Len(store')].lastActivity = now'

C15_StoreGrowsByAppending == [][C15_StoreStep]_vars

\* A conversation made by addMessage has got its second message by POST
\* send, at a later date.
C15_Witness ==
    /\ Len(store) = 1
    /\ Len(store[1].messages) = 2
    /\ store[1].messages[1].type = "incoming"
    /\ store[1].messages[2].sender = s_You
    /\ store[1].lastActivity = 2
    /\ fn = "send"
    /\ fnOut.status = 200

-----------------------------------------------------------------------------
(* C16: what GET conversations returns holds every conversation of the     *)
(* store once, by lastActivity from the most recent to the least recent;   *)
(* when it is called after an append, the conversation that got the        *)
(* message is the first of the list; and the call leaves the store as it   *)
(* was.                                                                    *)

\* The last call has appended a message to the conversation of its argument.
hasAppended ==
    \/ fn = "addMessage"
    \/ fn = "send" /\ fnOut.status = 200
          /\ hasConversation(store, fnArg.conversationId)

everyConversationOnce(body, st) ==
    /\ Len(body) = Len(st)
    /\ \A i \in DOMAIN st :
          Cardinality({ j \in DOMAIN body : body[j] = st[i] }) = 1

byLastActivity(body) ==
    \A j, k \in DOMAIN body :
        j < k => body[j].lastActivity >= body[k].lastActivity

C16_ListStep ==
    (fn' = "conversations" /\ storeCall) =>
        /\ store' = store
        /\ everyConversationOnce(fnOut'.body, store)
        /\ byLastActivity(fnOut'.body)

C16_LatestStep ==
    (fn' = "conversations" /\ hasAppended) =>
        fnOut'.body[1].id = fnArg.conversationId

C16_ListedByRecency == [][C16_ListStep /\ C16_LatestStep]_vars

\* The list is complete and sorted, whatever is first among equal dates.
C16_ListedByLastActivity == [][C16_ListStep]_vars

-----------------------------------------------------------------------------
(* C17: when POST send has answered 200, the conversation of the request   *)
(* is in the store and its last message is an outgoing message with the    *)
(* content of the request.                                                 *)

conversationOf(st, conversationId) ==
    st[CHOOSE i \in DOMAIN st : st[i].id = conversationId]

C17_SentIsStored ==
    (fn = "send" /\ fnOut.status = 200) =>
        /\ hasConversation(store, fnArg.conversationId)
        /\ LET messages == conversationOf(store, fnArg.conversationId).messages
           IN  /\ messages # <<>>
               /\ messages[Len(messages)].type = "outgoing"
               /\ messages[Len(messages)].content = fnArg.content

\* It is so for the conversations that are in the store.
C17_SentIsStoredIfSeen ==
    (fn = "send" /\ fnOut.status = 200
        /\ hasConversation(store, fnArg.conversationId)) => C17_SentIsStored

-----------------------------------------------------------------------------
(* C18: the store mirrors what the listener has sent: for every            *)
(* conversation, the contents of the replies sent to it, in order, are the *)
(* contents of its outgoing messages in the store, in order.               *)

contents(s) == [i \in DOMAIN s |-> s[i].content]

repliesTo(conversationId) ==
    LET to(reply) == reply.conversationId = conversationId
    IN  contents(SelectSeq(sent, to))

outgoingOf(st, conversationId) ==
    LET outgoing(message) == message.type = "outgoing"
    IN  IF hasConversation(st, conversationId)
        THEN contents(SelectSeq(conversationOf(st, conversationId).messages,
                                outgoing))
        ELSE <<>>

C18_StoreMirrorsReplies ==
    \A conversationId \in ConversationIds :
        outgoingOf(store, conversationId) = repliesTo(conversationId)

\* It is so as long as no error reply has been sent.
C18_StoreMirrorsNormalReplies ==
    (\A p \in DOMAIN sent : sent[p].content # errorEnvelope) =>
        C18_StoreMirrorsReplies

-----------------------------------------------------------------------------
(* C19: for the message in hand, each of the stages classify, extract,     *)
(* lookup and send has been called at most once, a stage only after the    *)
(* stage before it, and the lookup with the endpoint the classifier has    *)
(* returned and the handle the extractor has returned; and when the        *)
(* message has got its reply, each stage has been called once.             *)

\* The calls made for the last message taken.
callsFor == [k \in DOMAIN calls |-> calls[k] - atTake.calls[k]]

C19_AtMostOnceInOrder ==
    /\ \A k \in {"classifier", "extractor", "lookup", "send"} : callsFor[k] <= 1
    /\ callsFor.send <= callsFor.lookup
    /\ callsFor.lookup <= callsFor.extractor
    /\ callsFor.extractor <= callsFor.classifier
    /\ listener.pc \in {"makeApiCall", "send"} =>
          /\ callsFor.lookup = 1
          /\ call.endpoint = listener.selectedEndpoint
          /\ call.authorHandle = listener.authorHandle

C19_StagesOnceInOrder ==
    /\ C19_AtMostOnceInOrder
    /\ (taken # <<>> /\ taken[Len(taken)].fate = "replied") =>
          \A k \in {"classifier", "extractor", "lookup", "send"} :
              callsFor[k] = 1

-----------------------------------------------------------------------------
(* C20: the listener is in its catch block only after an exception in the  *)
(* try block (the lookup was rejected or the send of the reply threw); its *)
(* step from there is the send of the 2-space JSON of                      *)
(* {error: 'Failed to process request'} to the conversation of the message *)
(* in hand; no other step sends this text; and every reply that is sent    *)
(* ends the handling of its message, so that no message gets a second      *)
(* reply.                                                                  *)

exceptionInTry == call.promise = Rejected \/ callsFor.send = 1

errorReply ==
    [conversationId |-> listener.message.conversationId,
     content |-> errorEnvelope]

C20_ErrorReplyStep ==
    /\ listener.pc = "catch" => exceptionInTry
    /\ (listener.pc = "catch" /\ listener' # listener) =>
          /\ calls' = [calls EXCEPT !.errorReply = @ + 1]
          /\ sent' = sent \/ sent' = Append(sent, errorReply)
    /\ calls'.errorReply # calls.errorReply => listener.pc = "catch"
    /\ sent' # sent =>
          /\ Len(sent') = Len(sent) + 1
          /\ SubSeq(sent', 1, Len(sent)) = sent
          /\ sent'[Len(sent')].content = errorEnvelope <=> listener.pc = "catch"
          /\ taken[Len(taken)].fate = "handling"
          /\ taken'[Len(taken)].fate = "replied"
          /\ listener'.pc = "waiting"

C20_ErrorReplyOnlyAfterException == [][C20_ErrorReplyStep]_vars

\* The send of the reply has thrown and the error reply has been sent.
C20_Witness ==
    /\ taken # <<>> /\ taken[Len(taken)].fate = "replied"
    /\ callsFor.send = 1
    /\ callsFor.errorReply = 1
    /\ sent # <<>> /\ sent[Len(sent)].content = errorEnvelope

-----------------------------------------------------------------------------
(* C21: when the call of the completion service succeeds, the handle that  *)
(* extractAuthorHandle returns has no white space at its ends and does not *)
(* start with '@', whatever text the service has returned.                 *)

C21_ServiceHandleClean ==
    (fn = "extractAuthorHandle" /\ fnSvc # SvcThrow) =>
        /\ Returned(fnOut)
        /\ trim(fnOut[2]) = fnOut[2]
        /\ ~startsWith(fnOut[2], "@")

\* It is so for the answers with at most one '@', at the start.
C21_ServiceHandleCleanForPlainAnswers ==
    (/\ fn = "extractAuthorHandle" /\ fnSvc # SvcThrow
     /\ LET answer == replaceFirst(trim(fnSvc[2]), "@")
        IN  "@" \notin Range(answer) /\ trim(answer) = answer) =>
        C21_ServiceHandleClean

-----------------------------------------------------------------------------
(* C22: when the call of the completion service fails and no word of the   *)
(* message starts with '@' or matches the handle pattern, the empty        *)
(* message included, extractAuthorHandle returns the message trimmed and   *)
(* does not throw.                                                         *)

noHandleWord(userMessage) ==
    \A word \in Range(split(userMessage, " ")) :
        ~startsWith(word, "@") /\ ~matchesHandlePattern(word)

C22_LastResortIsTrimmedMessage ==
    (fn = "extractAuthorHandle" /\ fnSvc = SvcThrow /\ noHandleWord(fnArg)) =>
        fnOut = Return(trim(fnArg))

\* A message of two short words after a space has come back trimmed.
C22_Witness ==
    /\ fn = "extractAuthorHandle" /\ fnSvc = SvcThrow
    /\ fnArg = <<" ", "h", "i", " ", "?">>
    /\ noHandleWord(fnArg)
    /\ fnOut = Return(<<"h", "i", " ", "?">>)

-----------------------------------------------------------------------------
(* C23: on the same message, the same answers of the completion service    *)
(* and the same events of the transport, the terminal agent and the web    *)
(* service select the same endpoint, extract the same handle, request the  *)
(* same URL, get the same result of the lookup and take the same branch.   *)

C23_AgentsAgree ==
    fn = "pipelines" =>
        /\ fnOut.agent.selectedEndpoint = fnOut.service.selectedEndpoint
        /\ fnOut.agent.authorHandle = fnOut.service.authorHandle
        /\ fnOut.agent.url = fnOut.service.url
        /\ fnOut.agent.apiResponse = fnOut.service.apiResponse
        /\ fnOut.agent.branch = fnOut.service.branch

\* Both have taken a padded answer of the extractor to the second endpoint
\* and its formatter.
C23_Witness ==
    /\ fn = "pipelines"
    /\ fnSvc.extractor = SvcText(<<" ","@","a","b","\n">>)
    /\ fnOut.service.authorHandle = <<"a","b">>
    /\ fnOut.service.selectedEndpoint = s_endpoint2
    /\ fnOut.service.url = url2_head \o <<"a","b">> \o url2_tail
    /\ fnOut.service.branch = "formatEndpoint2Response"
    /\ fnOut.agent.branch = "formatEndpoint2Response"

-----------------------------------------------------------------------------
(* C24: a formatter applied a second time to the same payload returns the  *)
(* string it returned the first time, whatever time has passed and         *)
(* whatever calls were made between the two.                               *)

-----------------------------------------------------------------------------
(* C25: whatever the calls of start() and stop() are, at most one run of   *)
(* the listener loop is alive on the feed, and no message of the feed gets *)
(* two replies.                                                            *)

alive(run) == run.pc \notin {"noStream", "returned", "rejected"}

aliveRuns == { r \in DOMAIN runs : alive(runs[r]) }

C25_OneListenerOneReply ==
    /\ Cardinality(aliveRuns) <= 1
    /\ \A p, q \in DOMAIN sent : p # q => sent[p].msg # sent[q].msg

-----------------------------------------------------------------------------
(* C26: when getStatus() reports isRunning = true, a run of the listener   *)
(* loop is alive: it is opening its stream, waiting for a message or       *)
(* handling one.                                                           *)

getStatus == [isRunning |-> isRunning, clientConnected |-> client # "null"]

C26_RunningMeansListening ==
    getStatus.isRunning => aliveRuns # {}

-----------------------------------------------------------------------------
(* C27: isRunning = true implies clientConnected = true; after a step in  *)
(* which a call of start() fails, at Client.create or at sync, isRunning   *)
(* is false; a call of start() made while isRunning is true changes        *)
(* nothing; stop() sets isRunning to false and keeps the client.           *)

startFails ==
    /\ Len(starts') < Len(starts)
    /\ Len(runs') = Len(runs)

C27_StatusStep ==
    /\ getStatus'.isRunning => getStatus'.clientConnected
    /\ startFails => ~isRunning'
    /\ (isRunning /\ ServiceStart) =>
          UNCHANGED <<client, isRunning, starts, runs, store, sent, feed, takes>>
    /\ ServiceStopped => (~isRunning' /\ client' = client)

C27_StatusConsistent == [][C27_StatusStep]_vars

\* The same with the failed start() read as a step: the step in which a call
\* of start() fails does not change isRunning.
C27_FailedStartStep ==
    /\ getStatus'.isRunning => getStatus'.clientConnected
    /\ startFails => isRunning' = isRunning
    /\ (isRunning /\ ServiceStart) =>
          UNCHANGED <<client, isRunning, starts, runs, store, sent, feed, takes>>
    /\ ServiceStopped => (~isRunning' /\ client' = client)

C27_StatusConsistentButForOverlap == [][C27_FailedStartStep]_vars

-----------------------------------------------------------------------------
(* C28: sendMessage changes the store only when the send has succeeded.    *)
(* With no client it fails with 'XMTP client is not initialized', with a   *)
(* conversation the client does not know with 'Conversation not found',    *)
(* and when the send fails with the error of the send; in the three cases  *)
(* the store is as before and notifyListeners is not called.  For an id    *)
(* that the store does not have markOutgoingMessage changes nothing.       *)

\* The step is a call of POST send that has called sendMessage.
sendMessageCall == storeCall /\ fn' = "send" /\ fnOut'.status # 400

failsWith(e) ==
    /\ fnOut'.status = 500
    /\ fnOut'.error = e
    /\ store' = store
    /\ ~fnOut'.notified

C28_SendStep ==
    sendMessageCall =>
        /\ client = "null" => failsWith(e_notInitialized)
        /\ (client # "null" /\ fnArg'.client = "undefined") =>
              failsWith(e_notFound)
        /\ (client # "null" /\ fnArg'.client = "conversation"
               /\ ~fnArg'.delivered) => failsWith(SendError)
        /\ (store' # store \/ fnOut'.notified) =>
              (fnArg'.delivered /\ fnOut'.status = 200)
        /\ ~hasConversation(store, fnArg'.conversationId) =>
              (store' = store /\ ~fnOut'.notified)

C28_StoreOnlyAfterSend == [][C28_SendStep]_vars

\* A send that failed on a store that has the conversation, with a client.
C28_Witness ==
    /\ fn = "send"
    /\ client # "null"
    /\ fnArg.client = "conversation"
    /\ ~fnArg.delivered
    /\ fnOut.error = SendError
    /\ hasConversation(store, fnArg.conversationId)
    /\ stored(store) = 1

-----------------------------------------------------------------------------
(* C29: a message is in the store when its classification starts, and a    *)
(* reply is put into the store when its send has succeeded and not else;   *)
(* in every conversation of the store each reply of the agent stands after *)
(* the message it answers, and the replies of the agent stand in the order *)
(* of the messages they answer.                                            *)

messagesOf(conversationId) ==
    IF hasConversation(store, conversationId)
    THEN conversationOf(store, conversationId).messages
    ELSE <<>>

\* The places of the replies of the agent in a conversation of the store
agentPlaces(conversationId) ==
    { j \in DOMAIN messagesOf(conversationId) :
         messagesOf(conversationId)[j].sender = s_Agent }

\* The replies that the try block has sent to a conversation, in the order
\* of their sends
normalReplies(conversationId) ==
    LET normal(reply) == /\ reply.conversationId = conversationId
                         /\ reply.content # errorEnvelope
    IN  SelectSeq(sent, normal)

\* The place in the store of the k-th reply of the agent
placeOfReply(conversationId, k) ==
    CHOOSE j \in agentPlaces(conversationId) :
        Cardinality({ i \in agentPlaces(conversationId) : i <= j }) = k

inStoreBefore(message, place) ==
    \E j \in DOMAIN messagesOf(message.conversationId) :
        /\ j < place
        /\ messagesOf(message.conversationId)[j].type = "incoming"
        /\ messagesOf(message.conversationId)[j].content =
              messageContentOf(message)

C29_InboundFirst ==
    \A r \in DOMAIN runs :
        runs[r].pc \in {"try", "send", "catch"} =>
            LET message == feed[runs[r].msg]
            IN  inStoreBefore(message,
                              Len(messagesOf(message.conversationId)) + 1)

C29_ReplyAfterSend ==
    \A conversationId \in ConversationIds :
        LET replies == normalReplies(conversationId)
        IN  /\ Cardinality(agentPlaces(conversationId)) = Len(replies)
            /\ \A k \in DOMAIN replies :
                  LET j == placeOfReply(conversationId, k)
                  IN  /\ messagesOf(conversationId)[j].content =
                            replies[k].content
                      /\ inStoreBefore(feed[replies[k].msg], j)

C29_RepliesInInboundOrder ==
    \A conversationId \in ConversationIds :
        LET replies == normalReplies(conversationId)
        IN  \A j, k \in DOMAIN replies :
               j < k => replies[j].msg <= replies[k].msg

C29_StoreInOrder ==
    /\ C29_InboundFirst
    /\ C29_ReplyAfterSend
    /\ C29_RepliesInInboundOrder

\* The same but for the order of the replies
C29_StoreAfterInbound ==
    /\ C29_InboundFirst
    /\ C29_ReplyAfterSend

-----------------------------------------------------------------------------
(* C30: a formatter prints 'N/A' for a field only when the payload has not *)
(* got the field; a field that is there with the value 0 or the empty      *)
(* string is printed as that value.  Stated for the profile and for the    *)
(* list of tweets, on payloads whose fields are strings and numbers.       *)

isStringOrNumber(v) == Kind(v) \in {"str", "num"}

\* {result: {...}}: the fields that are there are strings or numbers, the
\* tags an array as well.
IsPlainProfile(d) ==
    /\ HasProp(d, s_result)
    /\ Kind(Get(d, s_result)) = "obj"
    /\ \A i \in DOMAIN Get(d, s_result)[2] :
          LET field == Get(d, s_result)[2][i]
          IN  \/ isStringOrNumber(field[2])
              \/ field[1] = s_tags /\ IsArray(field[2])

\* {result: [...]}, not empty: the items are objects, their fields strings
\* or numbers.
IsPlainTweets(d) ==
    /\ IsTweetPayload(d)
    /\ Get(d, s_result)[2] # <<>>
    /\ \A i \in DOMAIN Get(d, s_result)[2] :
          \A j \in DOMAIN Get(d, s_result)[2][i][2] :
              isStringOrNumber(Get(d, s_result)[2][i][2][j][2])

tweetWithFields(tweet, index) ==
    NumStr(index) \o t2_body \o shownBody(Get(tweet, s_body)[2])
    \o t2_time \o shownField(tweet, s_tweet_create_time)
    \o t2_views \o shownField(tweet, s_view_count)
    \o t2_likes \o shownField(tweet, s_like_count)
    \o t2_replies \o shownField(tweet, s_reply_count)
    \o t2_retweets \o shownField(tweet, s_retweet_count)
    \o t2_category \o shownField(tweet, s_tweet_category)
    \o t2_end

C30_NAOnlyWhenAbsent ==
    /\ (fn = "formatEndpoint1Response" /\ IsPlainProfile(fnArg)) =>
          LET r == Get(fnArg, s_result)
          IN  fnOut = Return(t1_name \o shownField(r, s_name)
                        \o t1_handle \o shownField(r, s_author_handle)
                        \o t1_bio \o shownField(r, s_bio)
                        \o t1_image \o shownField(r, s_profile_image_url)
                        \o t1_followers \o shownField(r, s_followers_count)
                        \o t1_tags \o shownTags(r))
    /\ (fn = "formatEndpoint2Response" /\ IsPlainTweets(fnArg)) =>
          LET tweets == Get(fnArg, s_result)[2]
          IN  fnOut = Return(trim(t2_head \o NumStr(Len(tweets)) \o t_headEnd
                          \o Concat([i \in DOMAIN tweets |->
                                        tweetWithFields(tweets[i], i)])))

\* The same for the payloads that have no 0 and no empty string.
hasNoFalsy(fields) ==
    \A i \in DOMAIN fields : fields[i][2] \notin {Num(0), Str(<<>>)}

C30_NAOnlyWhenAbsentOrFalsy ==
    /\ (fn = "formatEndpoint1Response" /\ IsPlainProfile(fnArg)
           /\ hasNoFalsy(Get(fnArg, s_result)[2])) => C30_NAOnlyWhenAbsent
    /\ (fn = "formatEndpoint2Response" /\ IsPlainTweets(fnArg)
           /\ \A i \in DOMAIN Get(fnArg, s_result)[2] :
                 hasNoFalsy(Get(fnArg, s_result)[2][i][2])) =>
          C30_NAOnlyWhenAbsent

=============================================================================
